---- MODULE Spec2Model ----
(***************************************************************************)
(* Version-range parsing of the semver package: the string-rewriting       *)
(* normalizer (hyphen, tilde, caret, x-range and star shorthands), the     *)
(* predicate builder ParseRange and the evaluation of the Range it returns.*)
(*                                                                         *)
(* A Go string is modelled as a sequence of one-character strings, so that *)
(* every regular expression of getRegex() and every strings/strconv call   *)
(* is computed on the characters, as the code computes it.                 *)
(***************************************************************************)
EXTENDS Integers, Sequences, FiniteSets, TLC

(***************************************************************************)
(* Characters and character classes of the regular expressions.            *)
(***************************************************************************)
DigitSeq == <<"0", "1", "2", "3", "4", "5", "6", "7", "8", "9">>

DigitChars == {DigitSeq[i] : i \in 1..Len(DigitSeq)}

UpperSeq ==
    <<"A", "B", "C", "D", "E", "F", "G", "H", "I", "J", "K", "L", "M",
      "N", "O", "P", "Q", "R", "S", "T", "U", "V", "W", "X", "Y", "Z">>

LowerSeq ==
    <<"a", "b", "c", "d", "e", "f", "g", "h", "i", "j", "k", "l", "m",
      "n", "o", "p", "q", "r", "s", "t", "u", "v", "w", "x", "y", "z">>

UpperChars == {UpperSeq[i] : i \in 1..Len(UpperSeq)}

LowerChars == {LowerSeq[i] : i \in 1..Len(LowerSeq)}

\* [a-zA-Z-] and [a-zA-Z0-9-] of NONNUMERICIDENTIFIER and BUILDIDENTIFIER
AlphaHyphenChars == UpperChars \cup LowerChars \cup {"-"}

IdentChars == AlphaHyphenChars \cup DigitChars

\* \s of Go's regexp syntax: [\t\n\f\r ]
SpaceChars == {" ", "\t", "\n", "\f", "\r"}

\* [v=\s] of XRANGEPLAIN and LOOSEPLAIN
VEqSpaceChars == {"v", "="} \cup SpaceChars

\* x, X and * of XRANGEIDENTIFIER
XChars == {"x", "X", "*"}

(***************************************************************************)
(* String helpers (package strings, regexp.Split).                         *)
(***************************************************************************)
\* v bound to a name within F: F(v)
Bind(v, F(_)) == F(v)

\* s[i:j-1] of Go with 1-based positions: the characters at positions i..j-1
Sub(s, i, j) == SubSeq(s, i, j - 1)

\* the characters from position i to the end
From(s, i) == SubSeq(s, i, Len(s))

\* the greedy star of a single class: the first position >= i whose
\* character is not in class C (Len(s)+1 when the run reaches the end)
RunEnd(s, i, C) ==
    LET stops == {j \in i..Len(s) : s[j] \notin C}
    IN  IF stops = {} THEN Len(s) + 1
        ELSE CHOOSE j \in stops : \A k \in stops : j <= k

CharAt(s, i) == IF i >= 1 /\ i <= Len(s) THEN s[i] ELSE ""

TrimSpace(s) ==
    LET keep == {j \in 1..Len(s) : s[j] \notin SpaceChars}
    IN  IF keep = {} THEN <<>>
        ELSE LET a == CHOOSE j \in keep : \A k \in keep : j <= k
                 b == CHOOSE j \in keep : \A k \in keep : j >= k
             IN  SubSeq(s, a, b)

RECURSIVE Join(_, _)
Join(parts, sep) ==
    IF Len(parts) = 0 THEN <<>>
    ELSE IF Len(parts) = 1 THEN parts[1]
    ELSE parts[1] \o sep \o Join(Tail(parts), sep)

\* regexp.MustCompile("\\s+").Split(s, -1)
RECURSIVE SplitSpaces(_)
SplitSpaces(s) ==
    LET ws == {j \in 1..Len(s) : s[j] \in SpaceChars}
    IN  IF ws = {} THEN <<s>>
        ELSE LET a == CHOOSE j \in ws : \A k \in ws : j <= k
                 b == RunEnd(s, a, SpaceChars)
             IN  <<Sub(s, 1, a)>> \o SplitSpaces(From(s, b))

\* strings.Split(s, " ")
RECURSIVE SplitOnSpace(_)
SplitOnSpace(s) ==
    LET sp == {j \in 1..Len(s) : s[j] = " "}
    IN  IF sp = {} THEN <<s>>
        ELSE LET a == CHOOSE j \in sp : \A k \in sp : j <= k
             IN  <<Sub(s, 1, a)>> \o SplitOnSpace(From(s, a + 1))

\* strings.Split(s, ".")
RECURSIVE SplitOnDot(_)
SplitOnDot(s) ==
    LET sp == {j \in 1..Len(s) : s[j] = "."}
    IN  IF sp = {} THEN <<s>>
        ELSE LET a == CHOOSE j \in sp : \A k \in sp : j <= k
             IN  <<Sub(s, 1, a)>> \o SplitOnDot(From(s, a + 1))

\* regexp.MustCompile("\\s*\\|\\|\\s*").Split(s, -1): a match starts at the
\* first position from which a run of spaces is followed by "||"
OrSepEnd(s, i) ==
    LET w == RunEnd(s, i, SpaceChars)
    IN  IF CharAt(s, w) = "|" /\ CharAt(s, w + 1) = "|"
        THEN RunEnd(s, w + 2, SpaceChars)
        ELSE 0

RECURSIVE SplitOr(_)
SplitOr(s) ==
    LET at == {j \in 1..Len(s) : OrSepEnd(s, j) # 0}
    IN  IF at = {} THEN <<s>>
        ELSE LET a == CHOOSE j \in at : \A k \in at : j <= k
             IN  <<Sub(s, 1, a)>> \o SplitOr(From(s, OrSepEnd(s, a)))

(***************************************************************************)
(* strconv.Atoi, the native int and strconv.Itoa.  A Go int is kept as a   *)
(* sign and a canonical decimal magnitude, so that the 64-bit range is     *)
(* exact: Atoi saturates at the largest int (its error is dropped by every *)
(* caller) and the increment wraps to the smallest one.                    *)
(***************************************************************************)
MaxIntDigits ==
    <<"9", "2", "2", "3", "3", "7", "2", "0", "3", "6", "8", "5", "4", "7", "7",
      "5", "8", "0", "7">>

MinIntDigits ==
    <<"9", "2", "2", "3", "3", "7", "2", "0", "3", "6", "8", "5", "4", "7", "7",
      "5", "8", "0", "8">>

DigitVal(c) == (CHOOSE i \in 1..Len(DigitSeq) : DigitSeq[i] = c) - 1

\* -1, 0, 1 for two canonical decimal magnitudes
RECURSIVE CmpLex(_, _)
CmpLex(a, b) ==
    IF Len(a) = 0 THEN 0
    ELSE IF DigitVal(a[1]) < DigitVal(b[1]) THEN -1
    ELSE IF DigitVal(a[1]) > DigitVal(b[1]) THEN 1
    ELSE CmpLex(Tail(a), Tail(b))

CmpDec(a, b) ==
    IF Len(a) < Len(b) THEN -1
    ELSE IF Len(a) > Len(b) THEN 1
    ELSE CmpLex(a, b)

StripZeros(d) ==
    LET nz == RunEnd(d, 1, {"0"})
    IN  IF nz > Len(d) THEN <<"0">> ELSE From(d, nz)

RECURSIVE IncDec(_)
IncDec(d) ==
    IF Len(d) = 0 THEN <<"1">>
    ELSE IF d[Len(d)] = "9" THEN IncDec(SubSeq(d, 1, Len(d) - 1)) \o <<"0">>
    ELSE SubSeq(d, 1, Len(d) - 1) \o <<DigitSeq[DigitVal(d[Len(d)]) + 2]>>

Atoi(s) ==
    IF Len(s) = 0 \/ RunEnd(s, 1, DigitChars) <= Len(s)
    THEN [neg |-> FALSE, mag |-> <<"0">>]
    ELSE LET d == StripZeros(s)
         IN  IF CmpDec(d, MaxIntDigits) = 1
             THEN [neg |-> FALSE, mag |-> MaxIntDigits]
             ELSE [neg |-> FALSE, mag |-> d]

\* a variant of the increment that leaves the number as it is
Add1Same(i) == i

\* an increment that stays at the largest int
Add1Saturating(i) ==
    IF i.mag = MaxIntDigits THEN i
    ELSE [neg |-> FALSE, mag |-> IncDec(i.mag)]

\* i + 1 on the native int, for the non-negative i that Atoi returns on the
\* captures of the regular expressions (digits, a wildcard or nothing)
Add1(i) ==
    IF i.mag = MaxIntDigits THEN [neg |-> TRUE, mag |-> MinIntDigits]
    ELSE [neg |-> FALSE, mag |-> IncDec(i.mag)]

Itoa(i) == IF i.neg THEN <<"-">> \o i.mag ELSE i.mag

(***************************************************************************)
(* The grammar of getRegex().  Each scanner takes the string and a start   *)
(* position and returns the position after the match (0: no match), under  *)
(* the leftmost-first rule of Go's regexp.  `whole` says that the pattern  *)
(* continues with something no identifier character matches ($, \s+), so   *)
(* that an identifier has to take its whole run of characters; without it  *)
(* the first alternative that matches wins.                                *)
(***************************************************************************)
\* NUMERICIDENTIFIER: 0|[1-9]\d*
NumIdEnd(s, i) ==
    IF CharAt(s, i) = "0" THEN i + 1
    ELSE IF CharAt(s, i) \in DigitChars THEN RunEnd(s, i, DigitChars)
    ELSE 0

\* XRANGEIDENTIFIER: NUMERICIDENTIFIER|x|X|\*
XIdEnd(s, i) ==
    IF CharAt(s, i) \in XChars THEN i + 1 ELSE NumIdEnd(s, i)

\* PRERELEASEIDENTIFIER: (?:0|[1-9]\d*|\d*[a-zA-Z-][a-zA-Z0-9-]*)
PreIdEnd(s, i, whole) ==
    LET e == RunEnd(s, i, IdentChars)
        d == RunEnd(s, i, DigitChars)
    IN  IF e = i THEN 0
        ELSE IF whole
        THEN IF d = e /\ s[i] = "0" /\ e > i + 1 THEN 0 ELSE e
        ELSE IF s[i] = "0" THEN i + 1
        ELSE IF d > i THEN d
        ELSE e

\* PRERELEASEIDENTIFIERLOOSE: (?:[0-9]+|\d*[a-zA-Z-][a-zA-Z0-9-]*), only
\* used unanchored (COMPARATORTRIM)
PreIdLooseEnd(s, i) ==
    LET e == RunEnd(s, i, IdentChars)
        d == RunEnd(s, i, DigitChars)
    IN  IF e = i THEN 0 ELSE IF d > i THEN d ELSE e

\* PRERELEASEIDENTIFIER(?:\.PRERELEASEIDENTIFIER)*
RECURSIVE PreIdsEnd(_, _, _)
PreIdsEnd(s, i, whole) ==
    Bind(PreIdEnd(s, i, whole), LAMBDA e :
    IF e = 0 THEN 0
    ELSE IF CharAt(s, e) = "." /\ PreIdEnd(s, e + 1, whole) # 0
    THEN PreIdsEnd(s, e + 1, whole)
    ELSE e)

RECURSIVE PreIdsLooseEnd(_, _)
PreIdsLooseEnd(s, i) ==
    Bind(PreIdLooseEnd(s, i), LAMBDA e :
    IF e = 0 THEN 0
    ELSE IF CharAt(s, e) = "." /\ PreIdLooseEnd(s, e + 1) # 0
    THEN PreIdsLooseEnd(s, e + 1)
    ELSE e)

\* BUILDIDENTIFIER(?:\.BUILDIDENTIFIER)*, BUILDIDENTIFIER: [0-9A-Za-z-]+
RECURSIVE BuildIdsEnd(_, _)
BuildIdsEnd(s, i) ==
    Bind(RunEnd(s, i, IdentChars), LAMBDA e :
    IF e = i THEN 0
    ELSE IF CharAt(s, e) = "." /\ RunEnd(s, e + 1, IdentChars) > e + 1
    THEN BuildIdsEnd(s, e + 1)
    ELSE e)

\* PRERELEASE?: (?:-(...))? ; the position after it and the capture
PrereleaseAt(s, i, whole) ==
    Bind(IF CharAt(s, i) = "-" THEN PreIdsEnd(s, i + 1, whole) ELSE 0, LAMBDA e :
    IF e = 0 THEN [end |-> i, pr |-> <<>>]
    ELSE [end |-> e, pr |-> Sub(s, i + 1, e)])

\* BUILD?: (?:\+(...))?
BuildEnd(s, i) ==
    Bind(IF CharAt(s, i) = "+" THEN BuildIdsEnd(s, i + 1) ELSE 0, LAMBDA e :
    IF e = 0 THEN i ELSE e)

NoMatch == [ok |-> FALSE]

\* XRANGEPLAIN at position i: the captures M, m, p, pr, the matched text
\* and the position after it
XRangePlainAt(s, i, whole) ==
    Bind(RunEnd(s, i, VEqSpaceChars), LAMBDA j :
    Bind(XIdEnd(s, j), LAMBDA e1 :
    Bind(IF e1 # 0 /\ CharAt(s, e1) = "." THEN XIdEnd(s, e1 + 1) ELSE 0, LAMBDA e2 :
    Bind(IF e2 # 0 /\ CharAt(s, e2) = "." THEN XIdEnd(s, e2 + 1) ELSE 0, LAMBDA e3 :
    Bind(PrereleaseAt(s, e3, whole), LAMBDA pre :
    Bind(IF e2 = 0 THEN e1
         ELSE IF e3 = 0 THEN e2
         ELSE BuildEnd(s, pre.end), LAMBDA e :
    IF e1 = 0 THEN NoMatch
    ELSE [ok  |-> TRUE,
          M   |-> Sub(s, j, e1),
          m   |-> IF e2 = 0 THEN <<>> ELSE Sub(s, e1 + 1, e2),
          p   |-> IF e3 = 0 THEN <<>> ELSE Sub(s, e2 + 1, e3),
          pr  |-> IF e3 = 0 THEN <<>> ELSE pre.pr,
          all |-> Sub(s, i, e),
          end |-> e]))))))

\* LOOSEPLAIN at position i (unanchored): the position after it, 0 if none
LoosePlainEnd(s, i) ==
    Bind(RunEnd(s, i, VEqSpaceChars), LAMBDA j :
    Bind(RunEnd(s, j, DigitChars), LAMBDA e1 :
    Bind(IF e1 > j /\ CharAt(s, e1) = "." THEN RunEnd(s, e1 + 1, DigitChars) ELSE 0,
         LAMBDA e2 :
    Bind(IF e2 > e1 + 1 /\ CharAt(s, e2) = "." THEN RunEnd(s, e2 + 1, DigitChars) ELSE 0,
         LAMBDA e3 :
    Bind(IF CharAt(s, e3) = "-" THEN PreIdsLooseEnd(s, e3 + 1) ELSE 0, LAMBDA h :
    Bind(IF h # 0 THEN h ELSE PreIdsLooseEnd(s, e3), LAMBDA q :
    Bind(IF q # 0 THEN q ELSE e3, LAMBDA e :
    IF e3 > e2 + 1 THEN BuildEnd(s, e) ELSE 0)))))))

\* a variant of GTLT without the "=": ((?:<|>)?)
GtltEndNoEq(s, i) == IF CharAt(s, i) \in {"<", ">"} THEN i + 1 ELSE i

\* GTLT: ((?:<|>)?=?)
GtltEnd(s, i) ==
    LET a == IF CharAt(s, i) \in {"<", ">"} THEN i + 1 ELSE i
    IN  IF CharAt(s, a) = "=" THEN a + 1 ELSE a

\* HYPHENRANGE: ^\s*(XRANGEPLAIN)\s+-\s+(XRANGEPLAIN)\s*$
HyphenRangeMatch(s) ==
    Bind(XRangePlainAt(s, RunEnd(s, 1, SpaceChars), TRUE), LAMBDA a :
    IF ~a.ok THEN NoMatch
    ELSE
    Bind(RunEnd(s, a.end, SpaceChars), LAMBDA w1 :
    Bind(RunEnd(s, w1 + 1, SpaceChars), LAMBDA w2 :
    Bind(XRangePlainAt(s, w2, TRUE), LAMBDA b :
    IF /\ w1 > a.end
       /\ CharAt(s, w1) = "-"
       /\ w2 > w1 + 1
       /\ b.ok
       /\ RunEnd(s, b.end, SpaceChars) = Len(s) + 1
    THEN [ok |-> TRUE, from |-> a, to |-> b]
    ELSE NoMatch))))

\* XRANGE: ^GTLT\s*XRANGEPLAIN$
XRangeMatch(s) ==
    Bind(GtltEnd(s, 1), LAMBDA g :
    Bind(XRangePlainAt(s, RunEnd(s, g, SpaceChars), TRUE), LAMBDA x :
    IF x.ok /\ x.end = Len(s) + 1
    THEN [ok |-> TRUE, gtlt |-> Sub(s, 1, g), v |-> x]
    ELSE NoMatch))

\* a variant of TILDE without the spelling "~>": ^(?:~)XRANGEPLAIN$
TildeMatchPlain(s) ==
    Bind(XRangePlainAt(s, 2, TRUE), LAMBDA x :
    IF CharAt(s, 1) = "~" /\ x.ok /\ x.end = Len(s) + 1
    THEN [ok |-> TRUE, v |-> x]
    ELSE NoMatch)

\* TILDE: ^(?:~>?)XRANGEPLAIN$
TildeMatch(s) ==
    Bind(XRangePlainAt(s, IF CharAt(s, 2) = ">" THEN 3 ELSE 2, TRUE), LAMBDA x :
    IF CharAt(s, 1) = "~" /\ x.ok /\ x.end = Len(s) + 1
    THEN [ok |-> TRUE, v |-> x]
    ELSE NoMatch)

\* CARET: ^(?:\^)XRANGEPLAIN$
CaretMatch(s) ==
    Bind(XRangePlainAt(s, 2, TRUE), LAMBDA x :
    IF CharAt(s, 1) = "^" /\ x.ok /\ x.end = Len(s) + 1
    THEN [ok |-> TRUE, v |-> x]
    ELSE NoMatch)

(***************************************************************************)
(* ReplaceAllString of the three trimming expressions and of STAR.  Each   *)
(* ...At gives the leftmost-first match starting at position 1 of what is  *)
(* left of the string; the driver copies one character when there is none. *)
(***************************************************************************)
\* COMPARATORTRIM: (\s*)GTLT\s*(LOOSEPLAIN|XRANGEPLAIN), replaced by $1$2$3
ComparatorTrimAt(s) ==
    Bind(GtltEnd(s, RunEnd(s, 1, SpaceChars)), LAMBDA g :
    Bind(RunEnd(s, g, SpaceChars), LAMBDA w :
    Bind(LoosePlainEnd(s, w), LAMBDA l :
    Bind(XRangePlainAt(s, w, FALSE), LAMBDA x :
    Bind(IF l # 0 THEN l ELSE IF x.ok THEN x.end ELSE 0, LAMBDA e :
    IF e = 0 THEN NoMatch
    ELSE [ok |-> TRUE, repl |-> Sub(s, 1, g) \o Sub(s, w, e), end |-> e])))))

RECURSIVE ComparatorTrim(_)
ComparatorTrim(s) ==
    IF Len(s) = 0 THEN <<>>
    ELSE Bind(ComparatorTrimAt(s), LAMBDA m :
         IF m.ok THEN m.repl \o ComparatorTrim(From(s, m.end))
         ELSE <<s[1]>> \o ComparatorTrim(Tail(s)))

\* TILDETRIM: (\s*)(?:~>?)\s+ and CARETTRIM: (\s*)(?:\^)\s+, replaced by
\* $1~ and $1^
LoneTrimAt(s, lone) ==
    LET w == RunEnd(s, 1, SpaceChars)
        t == IF lone = "~" /\ CharAt(s, w + 1) = ">" THEN w + 2 ELSE w + 1
        e == RunEnd(s, t, SpaceChars)
    IN  IF CharAt(s, w) = lone /\ e > t
        THEN [ok |-> TRUE, repl |-> Sub(s, 1, w) \o <<lone>>, end |-> e]
        ELSE NoMatch

\* a trim that leaves the whitespace after "~", "~>" and "^" in place
LoneTrimKeep(s, lone) == s

RECURSIVE LoneTrim(_, _)
LoneTrim(s, lone) ==
    IF Len(s) = 0 THEN <<>>
    ELSE Bind(LoneTrimAt(s, lone), LAMBDA m :
         IF m.ok THEN m.repl \o LoneTrim(From(s, m.end), lone)
         ELSE <<s[1]>> \o LoneTrim(Tail(s), lone))

TildeTrim(s) == LoneTrim(s, "~")

CaretTrim(s) == LoneTrim(s, "^")

\* STAR: (<|>)?=?\s*\*
StarEnd(s) ==
    LET w == RunEnd(s, GtltEnd(s, 1), SpaceChars)
    IN  IF CharAt(s, w) = "*" THEN w + 1 ELSE 0

GeZero == <<">", "=", "0", ".", "0", ".", "0">>

RECURSIVE StarReplaceAll(_)
StarReplaceAll(s) ==
    IF Len(s) = 0 THEN <<>>
    ELSE Bind(StarEnd(s), LAMBDA e :
         IF e # 0 THEN GeZero \o StarReplaceAll(From(s, e))
         ELSE <<s[1]>> \o StarReplaceAll(Tail(s)))

(***************************************************************************)
(* The normalizer.                                                         *)
(***************************************************************************)
\* a variant of isX that takes no empty string for a wildcard
isXNonEmpty(s) == s = <<"x">> \/ s = <<"X">> \/ s = <<"*">>

isX(s) == Len(s) = 0 \/ s = <<"x">> \/ s = <<"X">> \/ s = <<"*">>

Dot == <<".">>

Dot0 == <<".", "0">>

Dot00 == <<".", "0", ".", "0">>

GE == <<">", "=">>

LE == <<"<", "=">>

LT == <<"<">>

GT == <<">">>

SpLT == <<" ", "<">>

hyphenReplace(s) ==
    Bind(HyphenRangeMatch(s), LAMBDA match :
    LET f  == match.from
        t  == match.to
        from == IF isX(f.M) THEN <<>>
                ELSE IF isX(f.m) THEN GE \o f.M \o Dot00
                ELSE IF isX(f.p) THEN GE \o f.M \o Dot \o f.m \o Dot0
                ELSE GE \o f.all
        to == IF isX(t.M) THEN <<>>
              ELSE IF isX(t.m) THEN LT \o Itoa(Add1(Atoi(t.M))) \o Dot00
              ELSE IF isX(t.p) THEN LT \o t.M \o Dot \o Itoa(Add1(Atoi(t.m))) \o Dot0
              ELSE IF Len(t.pr) > 0
              THEN LE \o t.M \o Dot \o t.m \o Dot \o t.p \o <<"-">> \o t.pr
              ELSE LE \o t.all
    IN  IF ~match.ok THEN s ELSE TrimSpace(from \o <<" ">> \o to))

replaceTilde(s) ==
    Bind(TildeMatch(s), LAMBDA match :
    LET M  == match.v.M
        m  == match.v.m
        p  == match.v.p
        pr == match.v.pr
        major == Atoi(M)
        minor == Atoi(m)
    IN  IF ~match.ok THEN s
        ELSE IF isX(M) THEN <<>>
        ELSE IF isX(m) THEN GE \o M \o Dot00 \o SpLT \o Itoa(Add1(major)) \o Dot00
        ELSE IF isX(p)
        THEN GE \o M \o Dot \o m \o Dot0 \o SpLT \o M \o Dot \o Itoa(Add1(minor)) \o Dot0
        ELSE IF Len(pr) > 0
        THEN GE \o M \o Dot \o m \o Dot \o p \o <<"-">> \o pr
                \o SpLT \o M \o Dot \o Itoa(Add1(minor)) \o Dot0
        ELSE GE \o M \o Dot \o m \o Dot \o p
                \o SpLT \o M \o Dot \o Itoa(Add1(minor)) \o Dot0)

\* a variant of replaceCaret without the cases of a major 0
replaceCaretNoZero(s) ==
    Bind(CaretMatch(s), LAMBDA match :
    LET M  == match.v.M
        m  == match.v.m
        p  == match.v.p
        pr == match.v.pr
        major == Atoi(M)
    IN  IF ~match.ok THEN s
        ELSE IF isX(M) THEN <<>>
        ELSE IF isX(m) THEN GE \o M \o Dot00 \o SpLT \o Itoa(Add1(major)) \o Dot00
        ELSE IF isX(p)
        THEN GE \o M \o Dot \o m \o Dot0 \o SpLT \o Itoa(Add1(major)) \o Dot00
        ELSE IF Len(pr) > 0
        THEN GE \o M \o Dot \o m \o Dot \o p \o <<"-">> \o pr
                \o SpLT \o Itoa(Add1(major)) \o Dot00
        ELSE GE \o M \o Dot \o m \o Dot \o p
                \o SpLT \o Itoa(Add1(major)) \o Dot00)

replaceCaret(s) ==
    Bind(CaretMatch(s), LAMBDA match :
    LET M  == match.v.M
        m  == match.v.m
        p  == match.v.p
        pr == match.v.pr
        major == Atoi(M)
        minor == Atoi(m)
        patch == Atoi(p)
    IN  IF ~match.ok THEN s
        ELSE IF isX(M) THEN <<>>
        ELSE IF isX(m) THEN GE \o M \o Dot00 \o SpLT \o Itoa(Add1(major)) \o Dot00
        ELSE IF isX(p)
        THEN IF M = <<"0">>
             THEN GE \o M \o Dot \o m \o Dot0 \o SpLT \o M \o Dot \o Itoa(Add1(minor)) \o Dot0
             ELSE GE \o M \o Dot \o m \o Dot0 \o SpLT \o Itoa(Add1(major)) \o Dot00
        ELSE IF Len(pr) > 0
        THEN IF M = <<"0">>
             THEN IF m = <<"0">>
                  THEN GE \o M \o Dot \o m \o Dot \o p \o <<"-">> \o pr
                          \o SpLT \o M \o Dot \o m \o Dot \o Itoa(Add1(patch))
                  ELSE GE \o M \o Dot \o m \o Dot \o p \o <<"-">> \o pr
                          \o SpLT \o M \o Dot \o Itoa(Add1(minor)) \o Dot0
             ELSE GE \o M \o Dot \o m \o Dot \o p \o <<"-">> \o pr
                     \o SpLT \o Itoa(Add1(major)) \o Dot00
        ELSE IF M = <<"0">>
             THEN IF m = <<"0">>
                  THEN GE \o M \o Dot \o m \o Dot \o p
                          \o SpLT \o M \o Dot \o m \o Dot \o Itoa(Add1(patch))
                  ELSE GE \o M \o Dot \o m \o Dot \o p
                          \o SpLT \o M \o Dot \o Itoa(Add1(minor)) \o Dot0
             ELSE GE \o M \o Dot \o m \o Dot \o p
                     \o SpLT \o Itoa(Add1(major)) \o Dot00)

replaceXRange(s) ==
    Bind(XRangeMatch(s), LAMBDA match :
    LET M  == match.v.M
        m  == match.v.m
        p  == match.v.p
        xM == isX(M)
        xm == xM \/ isX(m)
        xp == xm \/ isX(p)
        anyX == xp
        gtlt == IF match.gtlt = <<"=">> /\ anyX THEN <<>> ELSE match.gtlt
        major == Atoi(M)
        minor == Atoi(m)
        m0 == IF xm THEN <<"0">> ELSE m
    IN  IF ~match.ok THEN s
        ELSE IF xM
        THEN IF gtlt = GT \/ gtlt = LT
             THEN <<"<", "0", ".", "0", ".", "0">>
             ELSE <<"*">>
        ELSE IF Len(gtlt) > 0 /\ anyX
        THEN IF gtlt = GT
             THEN IF xm
                  THEN GE \o Itoa(Add1(major)) \o Dot00
                  ELSE GE \o M \o Dot \o Itoa(Add1(minor)) \o Dot0
             ELSE IF gtlt = LE
             THEN IF xm
                  THEN LT \o Itoa(Add1(major)) \o Dot \o m0 \o Dot0
                  ELSE LT \o M \o Dot \o Itoa(Add1(minor)) \o Dot0
             ELSE gtlt \o M \o Dot \o m0 \o Dot0
        ELSE IF xm THEN GE \o M \o Dot00 \o SpLT \o Itoa(Add1(major)) \o Dot00
        ELSE IF xp
        THEN GE \o M \o Dot \o m \o Dot0 \o SpLT \o M \o Dot \o Itoa(Add1(minor)) \o Dot0
        ELSE s)

\* the loop shared by replaceCarets, replaceTildes and replaceXRanges:
\* TrimSpace, split on \s+, rewrite each part, join with one space
RECURSIVE MapCaret(_)
MapCaret(parts) ==
    IF Len(parts) = 0 THEN <<>>
    ELSE <<replaceCaret(parts[1])>> \o MapCaret(Tail(parts))

RECURSIVE MapTilde(_)
MapTilde(parts) ==
    IF Len(parts) = 0 THEN <<>>
    ELSE <<replaceTilde(parts[1])>> \o MapTilde(Tail(parts))

RECURSIVE MapXRange(_)
MapXRange(parts) ==
    IF Len(parts) = 0 THEN <<>>
    ELSE <<replaceXRange(parts[1])>> \o MapXRange(Tail(parts))

replaceCarets(s) == Join(MapCaret(SplitSpaces(TrimSpace(s))), <<" ">>)

replaceTildes(s) == Join(MapTilde(SplitSpaces(TrimSpace(s))), <<" ">>)

replaceXRanges(s) == Join(MapXRange(SplitSpaces(TrimSpace(s))), <<" ">>)

\* a star stage that rewrites nothing
replaceStarsNone(s) == TrimSpace(s)

replaceStars(s) == StarReplaceAll(TrimSpace(s))

parseComparatorString(s) ==
    replaceStars(replaceXRanges(replaceTildes(replaceCarets(s))))

\* a loop over the comparators that stops after the first one
MapComparatorStringFirst(comps) ==
    IF Len(comps) = 0 THEN <<>> ELSE <<parseComparatorString(comps[1])>>

RECURSIVE MapComparatorString(_)
MapComparatorString(comps) ==
    IF Len(comps) = 0 THEN <<>>
    ELSE <<parseComparatorString(comps[1])>> \o MapComparatorString(Tail(comps))

parseRange(s0) ==
    Bind(hyphenReplace(TrimSpace(s0)), LAMBDA s1 :
    Bind(CaretTrim(TildeTrim(ComparatorTrim(s1))), LAMBDA s2 :
    Bind(Join(SplitSpaces(s2), <<" ">>), LAMBDA s3 :
    Bind(MapComparatorString(SplitOnSpace(s3)), LAMBDA comps :
    SplitSpaces(Join(comps, <<" ">>))))))

(***************************************************************************)
(* The Version collaborator: Parse and Compare.  A Version keeps its three *)
(* numbers as canonical decimals and its prerelease as the sequence of its *)
(* identifiers; build metadata takes no part in the order and is dropped.  *)
(***************************************************************************)
Parse(s) ==
    Bind(IF CharAt(s, 1) = "v" THEN 2 ELSE 1, LAMBDA i :
    Bind(NumIdEnd(s, i), LAMBDA e1 :
    Bind(IF e1 # 0 /\ CharAt(s, e1) = "." THEN NumIdEnd(s, e1 + 1) ELSE 0, LAMBDA e2 :
    Bind(IF e2 # 0 /\ CharAt(s, e2) = "." THEN NumIdEnd(s, e2 + 1) ELSE 0, LAMBDA e3 :
    Bind(PrereleaseAt(s, e3, TRUE), LAMBDA pre :
    IF e3 # 0 /\ BuildEnd(s, pre.end) = Len(s) + 1
    THEN [ok |-> TRUE,
          v  |-> [major |-> Sub(s, i, e1),
                  minor |-> Sub(s, e1 + 1, e2),
                  patch |-> Sub(s, e2 + 1, e3),
                  pre   |-> IF Len(pre.pr) = 0 THEN <<>> ELSE SplitOnDot(pre.pr)]]
    ELSE NoMatch)))))

\* the order of two characters of an identifier (their byte values)
CharOrder == <<"-">> \o DigitSeq \o UpperSeq \o LowerSeq

Ord(c) == CHOOSE i \in 1..Len(CharOrder) : CharOrder[i] = c

RECURSIVE CmpStr(_, _)
CmpStr(a, b) ==
    IF Len(a) = 0 /\ Len(b) = 0 THEN 0
    ELSE IF Len(a) = 0 THEN -1
    ELSE IF Len(b) = 0 THEN 1
    ELSE IF Ord(a[1]) < Ord(b[1]) THEN -1
    ELSE IF Ord(a[1]) > Ord(b[1]) THEN 1
    ELSE CmpStr(Tail(a), Tail(b))

IsNumericId(a) == RunEnd(a, 1, DigitChars) = Len(a) + 1

\* numeric identifiers compare as integers and are lower than alphanumeric
\* ones, which compare lexically
CmpPreId(a, b) ==
    IF IsNumericId(a) /\ IsNumericId(b) THEN CmpDec(a, b)
    ELSE IF IsNumericId(a) THEN -1
    ELSE IF IsNumericId(b) THEN 1
    ELSE CmpStr(a, b)

RECURSIVE CmpPreIds(_, _)
CmpPreIds(p, q) ==
    IF Len(p) = 0 /\ Len(q) = 0 THEN 0
    ELSE IF Len(p) = 0 THEN -1
    ELSE IF Len(q) = 0 THEN 1
    ELSE LET c == CmpPreId(p[1], q[1])
         IN  IF c # 0 THEN c ELSE CmpPreIds(Tail(p), Tail(q))

\* a version with a prerelease is lower than the same triple without one
CmpPre(p, q) ==
    IF Len(p) = 0 /\ Len(q) = 0 THEN 0
    ELSE IF Len(p) = 0 THEN 1
    ELSE IF Len(q) = 0 THEN -1
    ELSE CmpPreIds(p, q)

Compare(v1, v2) ==
    IF CmpDec(v1.major, v2.major) # 0 THEN CmpDec(v1.major, v2.major)
    ELSE IF CmpDec(v1.minor, v2.minor) # 0 THEN CmpDec(v1.minor, v2.minor)
    ELSE IF CmpDec(v1.patch, v2.patch) # 0 THEN CmpDec(v1.patch, v2.patch)
    ELSE CmpPre(v1.pre, v2.pre)

(***************************************************************************)
(* Comparators, versionRange and Range.  A Range is a Go closure; it is    *)
(* kept as the tree of the closures that built it: a versionRange leaf,    *)
(* AND and OR nodes over two Ranges, or the nil func.                      *)
(***************************************************************************)
compEQ(v1, v2) == Compare(v1, v2) = 0

compNE(v1, v2) == Compare(v1, v2) # 0

compGT(v1, v2) == Compare(v1, v2) = 1

compGE(v1, v2) == Compare(v1, v2) >= 0

\* a compLT that is also true on equal versions
compLTLoose(v1, v2) == Compare(v1, v2) <= 0

compLT(v1, v2) == Compare(v1, v2) = -1

\* a variant of compLE that leaves out equality
compLEStrict(v1, v2) == Compare(v1, v2) = -1

compLE(v1, v2) == Compare(v1, v2) <= 0

\* the comparator named c applied to (v1, v2)
comparator(c, v1, v2) ==
    CASE c = "compEQ" -> compEQ(v1, v2)
      [] c = "compNE" -> compNE(v1, v2)
      [] c = "compGT" -> compGT(v1, v2)
      [] c = "compGE" -> compGE(v1, v2)
      [] c = "compLT" -> compLT(v1, v2)
      [] c = "compLE" -> compLE(v1, v2)

NilRange == [t |-> "nil"]

rangeFunc(vr) == [t |-> "vr", v |-> vr.v, c |-> vr.c]

\* a variant of OR that asks both operands to hold
ORBoth(rf, f) == [t |-> "AND", rf |-> rf, f |-> f]

OR(rf, f) == [t |-> "OR", rf |-> rf, f |-> f]

\* an AND that is satisfied when one of the two Ranges is
ANDEither(rf, f) == OR(rf, f)

AND(rf, f) == [t |-> "AND", rf |-> rf, f |-> f]

\* calling the Range r on v dereferences a nil func
RECURSIVE Panics(_, _)
\* the boolean the Range r returns on v (when the call does not panic)
RECURSIVE Eval(_, _)
Panics(r, v) ==
    CASE r.t = "nil" -> TRUE
      [] r.t = "vr"  -> FALSE
      [] r.t = "OR"  -> Panics(r.rf, v) \/ (~Eval(r.rf, v) /\ Panics(r.f, v))
      [] r.t = "AND" -> Panics(r.rf, v) \/ (Eval(r.rf, v) /\ Panics(r.f, v))

Eval(r, v) ==
    CASE r.t = "nil" -> FALSE
      [] r.t = "vr"  -> comparator(r.c, v, r.v)
      [] r.t = "OR"  -> Eval(r.rf, v) \/ Eval(r.f, v)
      [] r.t = "AND" -> Eval(r.rf, v) /\ Eval(r.f, v)

(***************************************************************************)
(* The predicate builder.                                                  *)
(***************************************************************************)
\* a variant of parseComparator without the case of "!"
parseComparatorNoBang(s) ==
    IF s = <<"=", "=">> \/ s = <<>> \/ s = <<"=">> THEN "compEQ"
    ELSE IF s = <<">">> THEN "compGT"
    ELSE IF s = <<">", "=">> THEN "compGE"
    ELSE IF s = <<"<">> THEN "compLT"
    ELSE IF s = <<"<", "=">> THEN "compLE"
    ELSE IF s = <<"!", "=">> THEN "compNE"
    ELSE "nil"

parseComparator(s) ==
    IF s = <<"=", "=">> \/ s = <<>> \/ s = <<"=">> THEN "compEQ"
    ELSE IF s = <<">">> THEN "compGT"
    ELSE IF s = <<">", "=">> THEN "compGE"
    ELSE IF s = <<"<">> THEN "compLT"
    ELSE IF s = <<"<", "=">> THEN "compLE"
    ELSE IF s = <<"!">> \/ s = <<"!", "=">> THEN "compNE"
    ELSE "nil"

NoErr == "nil"

splitComparatorVersion(s) ==
    LET digits == {j \in 1..Len(s) : s[j] \in DigitChars}
        i == CHOOSE j \in digits : \A k \in digits : j <= k
    IN  IF s = <<"x">> THEN [opStr |-> <<>>, vStr |-> <<"x">>, err |-> NoErr]
        ELSE IF digits = {}
        THEN [opStr |-> <<>>, vStr |-> <<>>, err |-> "Could not get version from string"]
        ELSE [opStr |-> TrimSpace(Sub(s, 1, i)), vStr |-> From(s, i), err |-> NoErr]

buildVersionRange(opStr, vStr) ==
    Bind(parseComparator(opStr), LAMBDA c :
    Bind(Parse(vStr), LAMBDA v :
    IF c = "nil" THEN [vr |-> NilRange, err |-> "Could not parse comparator"]
    ELSE IF ~v.ok THEN [vr |-> NilRange, err |-> "Could not parse version"]
    ELSE [vr |-> [v |-> v.v, c |-> c], err |-> NoErr]))

\* a first loop that keeps a part only when it is not empty
RECURSIVE ExpandPartsDropEmpty(_)
ExpandPartsDropEmpty(orParts) ==
    IF Len(orParts) = 0 THEN <<>>
    ELSE (IF Len(TrimSpace(orParts[1])) > 0
          THEN <<parseRange(TrimSpace(orParts[1]))>> ELSE <<>>)
         \o ExpandPartsDropEmpty(Tail(orParts))

\* the first loop of ParseRange: the expanded parts of the ||-split
RECURSIVE ExpandParts(_)
ExpandParts(orParts) ==
    IF Len(orParts) = 0 THEN <<>>
    ELSE Bind(parseRange(orParts[1]), LAMBDA parsed :
         (IF Len(parsed) > 0 THEN <<parseRange(TrimSpace(orParts[1]))>> ELSE <<>>)
         \o ExpandParts(Tail(orParts)))

\* a variant of the inner loop that goes on to the next comparator where the
\* code returns the error
RECURSIVE AndLoopSkip(_, _)
AndLoopSkip(p, andFn) ==
    IF Len(p) = 0 THEN [fn |-> andFn, err |-> NoErr]
    ELSE Bind(splitComparatorVersion(p[1]), LAMBDA sp :
         IF sp.err # NoErr THEN AndLoopSkip(Tail(p), andFn)
         ELSE
         Bind(buildVersionRange(sp.opStr, sp.vStr), LAMBDA b :
         IF b.err # NoErr THEN AndLoopSkip(Tail(p), andFn)
         ELSE
         Bind(rangeFunc(b.vr), LAMBDA rf :
         AndLoopSkip(Tail(p), IF andFn.t = "nil" THEN rf ELSE AND(andFn, rf)))))

\* the inner loop of ParseRange over the comparators of one part
RECURSIVE AndLoop(_, _)
AndLoop(p, andFn) ==
    IF Len(p) = 0 THEN [fn |-> andFn, err |-> NoErr]
    ELSE Bind(splitComparatorVersion(p[1]), LAMBDA sp :
         IF sp.err # NoErr THEN [fn |-> NilRange, err |-> sp.err]
         ELSE
         Bind(buildVersionRange(sp.opStr, sp.vStr), LAMBDA b :
         IF b.err # NoErr THEN [fn |-> NilRange, err |-> b.err]
         ELSE
         Bind(rangeFunc(b.vr), LAMBDA rf :
         AndLoop(Tail(p), IF andFn.t = "nil" THEN rf ELSE AND(andFn, rf)))))

\* the outer loop of ParseRange over the expanded parts
RECURSIVE OrLoop(_, _)
OrLoop(expandedParts, orFn) ==
    IF Len(expandedParts) = 0 THEN [fn |-> orFn, err |-> NoErr]
    ELSE Bind(AndLoop(expandedParts[1], NilRange), LAMBDA a :
         IF a.err # NoErr THEN [fn |-> NilRange, err |-> a.err]
         ELSE OrLoop(Tail(expandedParts),
                     IF orFn.t = "nil" THEN a.fn ELSE OR(orFn, a.fn)))

ParseRange(s) == OrLoop(ExpandParts(SplitOr(s)), NilRange)

\* no panic
NoPanic == <<>>

\* a MustParseRange that hands back what ParseRange returned, error or not
MustParseRangeQuiet(s) == [fn |-> ParseRange(s).fn, panic |-> NoPanic]

\* MustParseRange: the Range of ParseRange, or a panic with its error in the
\* message
MustParseRange(s) ==
    Bind(ParseRange(s), LAMBDA r :
    IF r.err # NoErr
    THEN [fn |-> NilRange, panic |-> <<"semver: ParseRange(">> \o s \o <<"): ", r.err>>]
    ELSE [fn |-> r.fn, panic |-> NoPanic])

(***************************************************************************)
(* The inputs.  A range string is composed from a shape, which records how *)
(* it was written: one comparator token (an operator prefix and a partial  *)
(* version), a hyphen range of two partial versions, a ||-list of          *)
(* space-separated plain comparators, or a literal text.                   *)
(***************************************************************************)
\* the largest number written in a component of a generated partial version
MaxNum == 2

\* the most comparators of a generated ||-list, over all its segments
MaxListTokens == 2

\* the largest number in a component of a Version a Range is evaluated on
MaxVer == 3

\* a component of a partial version: a number, a wildcard or left out
Wildcard == 0 - 1

Omitted == 0 - 2

\* decimal rendering of a natural number
RECURSIVE Dec(_)
Dec(n) ==
    IF n < 10 THEN <<DigitSeq[n + 1]>>
    ELSE Dec(n \div 10) \o <<DigitSeq[(n % 10) + 1]>>

Alpha == <<"a">>

\* the prereleases written in generated versions
ShapePres == {<<>>, Alpha}

PartialVers ==
    {r \in [M : (0..MaxNum) \cup {Wildcard},
            m : (0..MaxNum) \cup {Wildcard, Omitted},
            p : (0..MaxNum) \cup {Wildcard, Omitted},
            pr : ShapePres,
            w : XChars] :
        /\ r.m = Omitted => r.p = Omitted
        /\ r.pr # <<>> => r.M >= 0 /\ r.m >= 0 /\ r.p >= 0
        /\ Wildcard \notin {r.M, r.m, r.p} => r.w = "x"}

PV(M, m, p, pr) == [M |-> M, m |-> m, p |-> p, pr |-> pr, w |-> "x"]

RenderComp(c, w) == IF c = Wildcard THEN <<w>> ELSE Dec(c)

RenderVer(r) ==
    RenderComp(r.M, r.w)
    \o (IF r.m = Omitted THEN <<>> ELSE Dot \o RenderComp(r.m, r.w))
    \o (IF r.p = Omitted THEN <<>> ELSE Dot \o RenderComp(r.p, r.w))
    \o (IF r.pr = <<>> THEN <<>> ELSE <<"-">> \o r.pr)

\* the operator prefixes of generated tokens: the nine of parseComparator,
\* the three shorthands, and prefixes that are none of them
TokenOps ==
    {<<>>, <<"=">>, <<"=", "=">>, <<"!">>, <<"!", "=">>,
     GT, GE, LT, LE,
     <<"~">>, <<"~", ">">>, <<"^">>,
     <<"=", ">">>, <<"<", ">">>, <<"=", "<">>, <<"!", "!">>}

TokenShapes ==
    {[kind |-> "token", op |-> o, ver |-> a] : o \in TokenOps, a \in PartialVers}

\* the other end of a generated hyphen range
HyphenEnds ==
    {PV(1, 1, 1, <<>>), PV(1, 1, 1, Alpha), PV(1, Omitted, Omitted, <<>>),
     PV(Wildcard, Omitted, Omitted, <<>>)}

HyphenShapes ==
    {[kind |-> "hyphen", a |-> a, b |-> b] : a \in PartialVers, b \in HyphenEnds}
    \cup {[kind |-> "hyphen", a |-> a, b |-> b] : a \in HyphenEnds, b \in PartialVers}

\* a Version, from its three numbers and its prerelease identifiers
V(M, m, p, pre) == [major |-> Dec(M), minor |-> Dec(m), patch |-> Dec(p), pre |-> pre]

\* the Version a fully written partial version denotes
VOf(a) == V(a.M, a.m, a.p, IF a.pr = <<>> THEN <<>> ELSE <<a.pr>>)

\* the plain comparators of generated ||-lists: the text, and what it means
\* (rel "bad": no comparator can be built from the text)
C100 == <<"1", ".", "0", ".", "0">>

C200 == <<"2", ".", "0", ".", "0">>

C300 == <<"3", ".", "0", ".", "0">>

NoVersion == V(0, 0, 0, <<>>)

ListTokens ==
    {[text |-> GT \o C100, rel |-> ">", v |-> V(1, 0, 0, <<>>)],
     [text |-> LT \o C200, rel |-> "<", v |-> V(2, 0, 0, <<>>)],
     [text |-> GE \o C300, rel |-> ">=", v |-> V(3, 0, 0, <<>>)],
     [text |-> <<"!">> \o C200, rel |-> "!=", v |-> V(2, 0, 0, <<>>)],
     [text |-> <<"-">>, rel |-> "bad", v |-> NoVersion],
     [text |-> <<"=", ">">> \o C100, rel |-> "bad", v |-> NoVersion],
     [text |-> GE \o <<"1", ".", "2", ".", "x", ".", "y">>, rel |-> "bad", v |-> NoVersion]}

\* a ||-list: its comparators in order, and after which of them a "||" is
\* written (a space is written after the others)
ListShapes ==
    UNION {{[kind |-> "list", toks |-> t, cut |-> c] :
                t \in [1..k -> ListTokens], c \in [1..(k - 1) -> BOOLEAN]} :
           k \in 1..MaxListTokens}

OrSep == <<" ", "|", "|", " ">>

\* literal range strings of the documentation and the tests
Example1 == GT \o C100 \o SpLT \o C200 \o OrSep \o GE \o C300

Beta2 == <<"b", "e", "t", "a", ".", "2">>

RawTexts ==
    {Example1,
     <<>>,
     GT \o C100 \o <<" ", "^", "x">>,
     <<"1", ".", "2", ".", "3", " ", "-">>,
     GT \o C100 \o SpLT \o C300 \o <<" ", "!", "2", ".", "0", ".", "3", "-">> \o Beta2,
     <<"1", ".", "2", ".", "3", " ", "-", " ", "2", ".", "3", ".", "4">>,
     <<"1", ".", "2", " ", "-", " ", "3", ".", "4", ".", "5">>,
     <<"1", ".", "2", ".", "3", " ", "-", " ", "3", ".", "4">>,
     <<"1", ".", "2", " ", "-", " ", "3", ".", "4">>,
     <<"~", "1", ".", "2", ".", "3">>,
     <<"^", "1", ".", "2", ".", "3">>,
     <<"^", "0", ".", "2", ".", "3">>,
     <<"^", "0", ".", "0", ".", "3">>}

RawShapes == {[kind |-> "raw", text |-> x] : x \in RawTexts}

\* numbers at the edge of the native int, each with its exact successor
MaxIntLess1 ==
    <<"9", "2", "2", "3", "3", "7", "2", "0", "3", "6", "8", "5", "4", "7", "7",
      "5", "8", "0", "6">>

MaxIntPlus1 ==
    <<"9", "2", "2", "3", "3", "7", "2", "0", "3", "6", "8", "5", "4", "7", "7",
      "5", "8", "0", "8">>

MaxIntPlus2 ==
    <<"9", "2", "2", "3", "3", "7", "2", "0", "3", "6", "8", "5", "4", "7", "7",
      "5", "8", "0", "9">>

EdgeNums ==
    { [n |-> MaxIntLess1,  succ |-> MaxIntDigits],
      [n |-> MaxIntDigits, succ |-> MaxIntPlus1],
      [n |-> MaxIntPlus1,  succ |-> MaxIntPlus2] }

\* the places of a range where a rewriter increments a component N
EdgeForms ==
    { "1 - N", "1 - 1.N", "~N", "~1.N", "^N", "^0.N", "^0.0.N",
      ">N", ">1.N", "<=N", "<=1.N", "N", "1.N" }

EdgeShapes == {[kind |-> "edge", form |-> f, num |-> e] : f \in EdgeForms, e \in EdgeNums}

RenderEdge(f, n) ==
    CASE f = "1 - N"   -> <<"1", " ", "-", " ">> \o n
      [] f = "1 - 1.N" -> <<"1", " ", "-", " ", "1", ".">> \o n
      [] f = "~N"      -> <<"~">> \o n
      [] f = "~1.N"    -> <<"~", "1", ".">> \o n
      [] f = "^N"      -> <<"^">> \o n
      [] f = "^0.N"    -> <<"^", "0", ".">> \o n
      [] f = "^0.0.N"  -> <<"^", "0", ".", "0", ".">> \o n
      [] f = ">N"      -> <<">">> \o n
      [] f = ">1.N"    -> <<">", "1", ".">> \o n
      [] f = "<=N"     -> <<"<", "=">> \o n
      [] f = "<=1.N"   -> <<"<", "=", "1", ".">> \o n
      [] f = "N"       -> n
      [] f = "1.N"     -> <<"1", ".">> \o n

\* ">=v <v" for the fully specified versions v
BoundsShapes ==
    {[kind |-> "bounds", ver |-> a] : a \in {r \in PartialVers : r.M >= 0 /\ r.m >= 0 /\ r.p >= 0 /\ r.pr = <<>>}}

\* canonical comparators: one of the five relational operators and a fully
\* specified version, with or without a prerelease
CanonOps == {GE, LE, GT, LT, <<"=">>}

CanonVers == {C100, <<"2", ".", "0", ".", "3", "-">> \o Beta2}

CanonTokens == {o \o v : o \in CanonOps, v \in CanonVers}

CanonShapes ==
    UNION {{[kind |-> "canon", toks |-> t] : t \in [1..k -> CanonTokens]} :
           k \in 1..MaxListTokens}

\* the longest run of spaces written into a range string
MaxGap == 2

\* runs of whitespace: one to MaxGap spaces, or a tab
WhiteRuns == {[i \in 1..n |-> " "] : n \in 1..MaxGap} \cup {<<"\t">>}

\* one or two comparators with whitespace after their operators and between
\* them; the second comparator is absent when its version is empty
SpacedOps == {GT, GE, LT, LE, <<"=">>, <<"~">>, <<"~", ">">>, <<"^">>}

SpacedVers == {<<"1", ".", "2", ".", "3">>, <<"0", ".", "2">>, <<"1", ".", "x">>}

SpacedShapes ==
    {[kind |-> "spaced", c1 |-> [o |-> o1, ver |-> v1], gap |-> g,
      c2 |-> [o |-> <<>>, ver |-> <<>>], sep |-> <<" ">>] :
        o1 \in SpacedOps, v1 \in SpacedVers, g \in WhiteRuns \cup {<<>>}}
    \cup
    {[kind |-> "spaced", c1 |-> [o |-> o1, ver |-> v1], gap |-> g,
      c2 |-> [o |-> o2, ver |-> C200], sep |-> w] :
        o1 \in SpacedOps, v1 \in SpacedVers, g \in WhiteRuns \cup {<<>>},
        o2 \in {LT, <<"^">>}, w \in WhiteRuns}

\* the range string with its whitespace, and its compact spelling
RenderSpaced(sh) ==
    sh.c1.o \o sh.gap \o sh.c1.ver
    \o (IF sh.c2.ver = <<>> THEN <<>> ELSE sh.sep \o sh.c2.o \o sh.gap \o sh.c2.ver)

Compact(sh) ==
    sh.c1.o \o sh.c1.ver
    \o (IF sh.c2.ver = <<>> THEN <<>> ELSE <<" ">> \o sh.c2.o \o sh.c2.ver)

\* ||-lists of well-formed one-comparator segments with one empty segment:
\* a leading "||", a trailing "||" or a doubled "||" after the first segment
HollowShapes ==
    UNION {{[kind |-> "hollow", segs |-> g, place |-> w] :
                g \in [1..k -> {GT \o C100, GE \o C300}],
                w \in {"lead", "trail"} \cup (IF k > 1 THEN {"double"} ELSE {})} :
           k \in 1..MaxListTokens}

RenderHollow(sh) ==
    CASE sh.place = "lead"   -> <<"|", "|", " ">> \o Join(sh.segs, OrSep)
      [] sh.place = "trail"  -> Join(sh.segs, OrSep) \o <<" ", "|", "|">>
      [] sh.place = "double" -> sh.segs[1] \o OrSep \o <<"|", "|", " ">>
                                \o Join(Tail(sh.segs), OrSep)

Shapes ==
    TokenShapes \cup HyphenShapes \cup ListShapes \cup RawShapes \cup EdgeShapes
    \cup BoundsShapes \cup CanonShapes \cup SpacedShapes \cup HollowShapes

\* the last comparator of the segment of a ||-list that starts at its i-th
SegEnd(sh, i) ==
    IF \A j \in i..(Len(sh.toks) - 1) : ~sh.cut[j] THEN Len(sh.toks)
    ELSE CHOOSE j \in i..(Len(sh.toks) - 1) :
             sh.cut[j] /\ \A k \in i..(j - 1) : ~sh.cut[k]

\* the segments of a ||-list from its i-th comparator on
RECURSIVE SegsFrom(_, _)
SegsFrom(sh, i) ==
    IF i > Len(sh.toks) THEN <<>>
    ELSE <<SubSeq(sh.toks, i, SegEnd(sh, i))>> \o SegsFrom(sh, SegEnd(sh, i) + 1)

Segs(sh) == SegsFrom(sh, 1)

RECURSIVE Texts(_)
Texts(ts) == IF Len(ts) = 0 THEN <<>> ELSE <<ts[1].text>> \o Texts(Tail(ts))

RECURSIVE RenderSegs(_)
RenderSegs(segs) ==
    IF Len(segs) = 0 THEN <<>>
    ELSE <<Join(Texts(segs[1]), <<" ">>)>> \o RenderSegs(Tail(segs))

Render(sh) ==
    CASE sh.kind = "token"  -> sh.op \o RenderVer(sh.ver)
      [] sh.kind = "hyphen" -> RenderVer(sh.a) \o <<" ", "-", " ">> \o RenderVer(sh.b)
      [] sh.kind = "list"   -> Join(RenderSegs(Segs(sh)), OrSep)
      [] sh.kind = "raw"    -> sh.text
      [] sh.kind = "edge"   -> RenderEdge(sh.form, sh.num.n)
      [] sh.kind = "canon"  -> Join(sh.toks, <<" ">>)
      [] sh.kind = "spaced" -> RenderSpaced(sh)
      [] sh.kind = "hollow" -> RenderHollow(sh)
      [] sh.kind = "bounds" -> GE \o RenderVer(sh.ver) \o SpLT \o RenderVer(sh.ver)

\* the built Ranges handed to the combinators as their argument
OperandTexts == {GT \o C100, Example1}

Operands == {ParseRange(x).fn : x \in OperandTexts}

\* the Versions a Range is evaluated on
VersionPres == {<<>>, <<Alpha>>, <<<<Alpha[1], Beta2[6]>>>>}

Versions ==
    {V(M, m, p, pre) : M \in 0..MaxVer, m \in 0..MaxVer, p \in 0..MaxVer, pre \in VersionPres}
    \cup {V(3, 5, 0, <<>>), V(2, 9, 9, <<>>), V(2, 3, 4, <<>>), V(2, 3, 5, <<>>),
          V(2, 0, 3, <<Sub(Beta2, 1, 5), <<"2">>>>),
          V(0, 0, 0, <<<<"a", "l", "p", "h", "a">>>>)}

(***************************************************************************)
(* The state: the range string s (composed from shape), the function that  *)
(* was called on it (op) and what it returned: a string (out), the         *)
(* comparators of parseRange (toks), or the Range and error of ParseRange. *)
(***************************************************************************)
\* the goroutines that call one Range concurrently
NumReaders == 2

\* the range strings whose Range the readers share, and the Versions they
\* call it on
ReaderTexts ==
    {Example1,
     GT \o C100 \o SpLT \o C300 \o <<" ", "!", "2", ".", "0", ".", "3", "-">> \o Beta2,
     <<"~", "1", ".", "2", ".", "3">>}

ReaderVersions ==
    {V(1, 0, 0, <<>>), V(1, 2, 3, <<>>), V(2, 0, 3, <<Sub(Beta2, 1, 5), <<"2">>>>),
     V(3, 0, 0, <<>>)}

\* a reader that is not inside a call
Idle == [pc |-> "idle", v |-> NoVersion, path |-> <<>>, res |-> FALSE]

VARIABLES shape, s, op, out, toks, rng, err, arg, panic, readers

vars == <<shape, s, op, out, toks, rng, err, arg, panic, readers>>

Init ==
    /\ shape \in Shapes
    /\ s = Render(shape)
    /\ op = "none"
    /\ out = <<>>
    /\ toks = <<>>
    /\ rng = NilRange
    /\ err = NoErr
    /\ arg = NilRange
    /\ panic = NoPanic
    /\ readers = [i \in 1..NumReaders |-> Idle]

HyphenReplace ==
    /\ op = "none"
    /\ op' = "hyphenReplace"
    /\ out' = hyphenReplace(s)
    /\ UNCHANGED <<shape, s, toks, rng, err, arg, panic, readers>>

ReplaceTildes ==
    /\ op = "none"
    /\ op' = "replaceTildes"
    /\ out' = replaceTildes(s)
    /\ UNCHANGED <<shape, s, toks, rng, err, arg, panic, readers>>

ReplaceCarets ==
    /\ op = "none"
    /\ op' = "replaceCarets"
    /\ out' = replaceCarets(s)
    /\ UNCHANGED <<shape, s, toks, rng, err, arg, panic, readers>>

ReplaceXRanges ==
    /\ op = "none"
    /\ op' = "replaceXRanges"
    /\ out' = replaceXRanges(s)
    /\ UNCHANGED <<shape, s, toks, rng, err, arg, panic, readers>>

ParseComparatorString ==
    /\ op = "none"
    /\ op' = "parseComparatorString"
    /\ out' = parseComparatorString(s)
    /\ UNCHANGED <<shape, s, toks, rng, err, arg, panic, readers>>

CallParseRangeTokens ==
    /\ op = "none"
    /\ op' = "parseRange"
    /\ toks' = parseRange(s)
    /\ UNCHANGED <<shape, s, out, rng, err, arg, panic, readers>>

CallParseRange ==
    /\ op = "none"
    /\ op' = "ParseRange"
    /\ Bind(ParseRange(s), LAMBDA r : rng' = r.fn /\ err' = r.err)
    /\ UNCHANGED <<shape, s, out, toks, arg, panic, readers>>

CallMustParseRange ==
    /\ op = "none"
    /\ op' = "MustParseRange"
    /\ Bind(MustParseRange(s), LAMBDA r : rng' = r.fn /\ panic' = r.panic)
    /\ UNCHANGED <<shape, s, out, toks, err, arg, readers>>

\* r.AND(f) on the Range r that ParseRange returned for a ||-list and a built
\* Range f
CallAND ==
    /\ op = "ParseRange"
    /\ err = NoErr
    /\ shape.kind = "list"
    /\ op' = "AND"
    /\ \E f \in Operands :
          /\ arg' = f
          /\ rng' = AND(rng, f)
    /\ UNCHANGED <<shape, s, out, toks, err, panic, readers>>

\* r.OR(f) on the Range r that ParseRange returned for a ||-list and a built
\* Range f
CallOR ==
    /\ op = "ParseRange"
    /\ err = NoErr
    /\ shape.kind = "list"
    /\ op' = "OR"
    /\ \E f \in Operands :
          /\ arg' = f
          /\ rng' = OR(rng, f)
    /\ UNCHANGED <<shape, s, out, toks, err, panic, readers>>

Next ==
    \/ HyphenReplace
    \/ ReplaceTildes
    \/ ReplaceCarets
    \/ ReplaceXRanges
    \/ ParseComparatorString
    \/ CallParseRangeTokens
    \/ CallParseRange
    \/ CallMustParseRange
    \/ CallAND
    \/ CallOR

Spec == Init /\ [][Next]_vars

(***************************************************************************)
(* Concurrent readers of one Range.  A Range is a closure: calling it      *)
(* walks the closures of OR and AND down to those of rangeFunc, each of    *)
(* which reads its captured versionRange.  A reader holds the Version it   *)
(* was called on and its place in the shared Range, and takes one step per *)
(* closure it enters.                                                      *)
(***************************************************************************)
\* the closure of the Range r that the path leads to, through the captured
\* rf and f of OR and AND
RECURSIVE At(_, _)
At(r, path) ==
    IF Len(path) = 0 THEN r
    ELSE IF path[1] = "rf" THEN At(r.rf, Tail(path))
    ELSE At(r.f, Tail(path))

\* a resumption that takes the first boolean computed for the whole result
ResumeFirst(r, path, b) == [done |-> TRUE, res |-> b, path |-> <<>>]

\* the closure at path has returned b: rf(v) || f(v) and rf(v) && f(v) call
\* f when rf has not decided, and return to their own caller otherwise
RECURSIVE Resume(_, _, _)
Resume(r, path, b) ==
    IF Len(path) = 0 THEN [done |-> TRUE, res |-> b, path |-> <<>>]
    ELSE IF path[Len(path)] = "f" THEN Resume(r, SubSeq(path, 1, Len(path) - 1), b)
    ELSE IF (At(r, SubSeq(path, 1, Len(path) - 1)).t = "AND") = b
         THEN [done |-> FALSE, res |-> b,
               path |-> SubSeq(path, 1, Len(path) - 1) \o <<"f">>]
    ELSE Resume(r, SubSeq(path, 1, Len(path) - 1), b)

\* reader i calls the Range on the Version v
ReaderCall(i) ==
    /\ op = "ParseRange"
    /\ err = NoErr
    /\ readers[i].pc = "idle"
    /\ \E v \in ReaderVersions :
          readers' = [readers EXCEPT ![i] = [pc |-> "eval", v |-> v, path |-> <<>>,
                                             res |-> FALSE]]
    /\ UNCHANGED <<shape, s, op, out, toks, rng, err, arg, panic>>

\* reader i enters the closure at its place: an OR or an AND calls its rf, a
\* rangeFunc compares and returns, a nil func panics
ReaderStep(i) ==
    /\ readers[i].pc = "eval"
    /\ Bind(At(rng, readers[i].path), LAMBDA node :
         IF node.t = "nil"
         THEN readers' = [readers EXCEPT ![i].pc = "panic"]
         ELSE IF node.t \in {"OR", "AND"}
         THEN readers' = [readers EXCEPT ![i].path = @ \o <<"rf">>]
         ELSE Bind(Resume(rng, readers[i].path,
                          comparator(node.c, readers[i].v, node.v)), LAMBDA k :
              readers' = [readers EXCEPT ![i].pc = IF k.done THEN "done" ELSE "eval",
                                         ![i].path = k.path,
                                         ![i].res = k.res]))
    /\ UNCHANGED <<shape, s, op, out, toks, rng, err, arg, panic>>

\* reader i hands the boolean to its caller and is free to call again
ReaderReturn(i) ==
    /\ readers[i].pc = "done"
    /\ readers' = [readers EXCEPT ![i] = Idle]
    /\ UNCHANGED <<shape, s, op, out, toks, rng, err, arg, panic>>

ReadersInit ==
    /\ shape \in {[kind |-> "raw", text |-> x] : x \in ReaderTexts}
    /\ s = Render(shape)
    /\ op = "none"
    /\ out = <<>>
    /\ toks = <<>>
    /\ rng = NilRange
    /\ err = NoErr
    /\ arg = NilRange
    /\ panic = NoPanic
    /\ readers = [i \in 1..NumReaders |-> Idle]

ReadersNext ==
    \/ CallParseRange
    \/ \E i \in 1..NumReaders : ReaderCall(i)
    \/ \E i \in 1..NumReaders : ReaderStep(i)
    \/ \E i \in 1..NumReaders : ReaderReturn(i)

ReadersSpec == ReadersInit /\ [][ReadersNext]_vars

(***************************************************************************)
(* What the written inputs mean, stated on the shape and not through the   *)
(* parser.                                                                 *)
(***************************************************************************)
\* the comparator written with the relation rel against w, on the Version v
Holds(rel, v, w) ==
    CASE rel = "="  -> Compare(v, w) = 0
      [] rel = "!=" -> Compare(v, w) # 0
      [] rel = ">"  -> Compare(v, w) = 1
      [] rel = ">=" -> Compare(v, w) >= 0
      [] rel = "<"  -> Compare(v, w) = -1
      [] rel = "<=" -> Compare(v, w) <= 0

\* every comparator of the segment seg of a ||-list holds on v
SegTrue(seg, v) == \A i \in 1..Len(seg) : Holds(seg[i].rel, v, seg[i].v)

\* a ||-list all of whose comparators are well formed
GoodList(sh) ==
    sh.kind = "list" /\ \A i \in 1..Len(sh.toks) : sh.toks[i].rel # "bad"

\* a ||-list with a comparator no versionRange can be built from
BadList(sh) ==
    sh.kind = "list" /\ \E i \in 1..Len(sh.toks) : sh.toks[i].rel = "bad"

(***************************************************************************)
(* C1.  A Range that ParseRange returns is true on a Version v iff at      *)
(* least one ||-separated segment of the string has all of its comparators *)
(* true on v; ">1.0.0 <2.0.0 || >=3.0.0" is true on 1.1.1, 3.0.0 and 3.5.0 *)
(* and false on 1.0.0, 2.0.0 and 2.9.9.                                    *)
(***************************************************************************)
C1_OrOfAnds ==
    /\ (op = "ParseRange" /\ GoodList(shape)) =>
          /\ err = NoErr
          /\ \A v \in Versions :
                /\ ~Panics(rng, v)
                /\ Eval(rng, v) <=>
                      \E i \in 1..Len(Segs(shape)) : SegTrue(Segs(shape)[i], v)
    /\ (op = "ParseRange" /\ s = Example1) =>
          /\ \A v \in {V(1, 1, 1, <<>>), V(3, 0, 0, <<>>), V(3, 5, 0, <<>>)} :
                Eval(rng, v)
          /\ \A v \in {V(1, 0, 0, <<>>), V(2, 0, 0, <<>>), V(2, 9, 9, <<>>)} :
                ~Eval(rng, v)

\* ParseRange has returned the Range of ">1.0.0 <2.0.0 || >=3.0.0", which is
\* true on 3.5.0 through its second segment alone and false on 2.9.9
C1_Witness ==
    /\ op = "ParseRange"
    /\ s = Example1
    /\ err = NoErr
    /\ rng.t = "OR"
    /\ Eval(rng, V(3, 5, 0, <<>>))
    /\ ~Eval(rng.rf, V(3, 5, 0, <<>>))
    /\ ~Eval(rng, V(2, 9, 9, <<>>))

(***************************************************************************)
(* C2.  ParseRange yields no partial Range: when a comparator of any       *)
(* segment does not split, has an unknown operator or a version that does  *)
(* not parse (">=1.2.x.y", "1.2.3 -"), it returns an error and the nil     *)
(* Range, wherever the comparator stands and whatever the others are.      *)
(***************************************************************************)
C2_NoPartialRange ==
    (/\ op = "ParseRange"
     /\ \/ BadList(shape)
        \/ s = <<"1", ".", "2", ".", "3", " ", "-">>)
    => (err # NoErr /\ rng = NilRange)

\* ParseRange has failed on a list of two segments of which the first is a
\* well-formed comparator and the second is not
C2_Witness ==
    /\ op = "ParseRange"
    /\ shape.kind = "list"
    /\ Len(shape.toks) = 2
    /\ shape.toks[1].rel # "bad"
    /\ shape.toks[2].rel = "bad"
    /\ shape.cut[1]
    /\ err # NoErr
    /\ rng = NilRange

\* a partial version with its three numbers written
Full(a) == a.M >= 0 /\ a.m >= 0 /\ a.p >= 0

\* the range shorthands among the operator prefixes
Shorthands == {<<"~">>, <<"~", ">">>, <<"^">>}

\* the relation an operator prefix stands for ("bad": none)
OpRel(o) ==
    CASE o \in {<<>>, <<"=">>, <<"=", "=">>} -> "="
      [] o \in {<<"!">>, <<"!", "=">>}       -> "!="
      [] o = GT -> ">"
      [] o = GE -> ">="
      [] o = LT -> "<"
      [] o = LE -> "<="
      [] OTHER  -> "bad"

\* a ||-list of one segment "A !w" with A not empty
ButNotList(sh) ==
    /\ GoodList(sh)
    /\ Len(sh.toks) >= 2
    /\ \A i \in 1..(Len(sh.toks) - 1) : ~sh.cut[i]
    /\ sh.toks[Len(sh.toks)].rel = "!="

\* the text of A in the segment "A !w" of the list sh
ButNotRest(sh) == Join(Texts(SubSeq(sh.toks, 1, Len(sh.toks) - 1)), <<" ">>)

Example3Rest == GT \o C100 \o SpLT \o C300

Example3 == Example3Rest \o <<" ", "!", "2", ".", "0", ".", "3", "-">> \o Beta2

Example3Not == V(2, 0, 3, <<Sub(Beta2, 1, 5), <<"2">>>>)

(***************************************************************************)
(* C3.  The operator prefix of a comparator maps: "", "=", "==" to equals, *)
(* "!", "!=" to not-equals, ">", ">=", "<", "<=" to themselves; any other  *)
(* prefix makes ParseRange return an error.  A segment "A !w" matches the  *)
(* versions "A" matches other than those that compare equal to w, as in    *)
(* ">1.0.0 <3.0.0 !2.0.3-beta.2".                                          *)
(***************************************************************************)
C3_OperatorPrefix ==
    /\ (/\ op = "ParseRange"
        /\ shape.kind = "token"
        /\ Full(shape.ver)
        /\ shape.op \notin Shorthands)
       => IF OpRel(shape.op) = "bad"
          THEN err # NoErr /\ rng = NilRange
          ELSE /\ err = NoErr
               /\ \A v \in Versions :
                     /\ ~Panics(rng, v)
                     /\ Eval(rng, v) <=> Holds(OpRel(shape.op), v, VOf(shape.ver))
    /\ (op = "ParseRange" /\ ButNotList(shape))
       => /\ err = NoErr
          /\ \A v \in Versions :
                Eval(rng, v) <=>
                   /\ Eval(ParseRange(ButNotRest(shape)).fn, v)
                   /\ Compare(v, shape.toks[Len(shape.toks)].v) # 0
    /\ (op = "ParseRange" /\ s = Example3)
       => /\ err = NoErr
          /\ \A v \in Versions :
                Eval(rng, v) <=>
                   /\ Eval(ParseRange(Example3Rest).fn, v)
                   /\ Compare(v, Example3Not) # 0

\* ParseRange has returned the Range of ">1.0.0 <3.0.0 !2.0.3-beta.2", which
\* leaves out 2.0.3-beta.2 though ">1.0.0 <3.0.0" matches it
C3_Witness ==
    /\ op = "ParseRange"
    /\ s = Example3
    /\ err = NoErr
    /\ ~Eval(rng, Example3Not)
    /\ Eval(ParseRange(Example3Rest).fn, Example3Not)
    /\ Eval(rng, V(2, 0, 3, <<>>))

\* M.m.p from three natural numbers
Triple(M, m, p) == Dec(M) \o Dot \o Dec(m) \o Dot \o Dec(p)

\* two comparators of which either may be dropped, as one string
Pair(lo, up) ==
    IF lo = <<>> THEN up ELSE IF up = <<>> THEN lo ELSE lo \o <<" ">> \o up

\* the lower bound of the hyphen range that starts at the partial version a
HyphenLower(a) ==
    IF a.M < 0 THEN <<>>
    ELSE IF a.m < 0 THEN GE \o Triple(a.M, 0, 0)
    ELSE IF a.p < 0 THEN GE \o Triple(a.M, a.m, 0)
    ELSE GE \o RenderVer(a)

\* the upper bound of the hyphen range that ends at the partial version b
HyphenUpper(b) ==
    IF b.M < 0 THEN <<>>
    ELSE IF b.m < 0 THEN LT \o Triple(b.M + 1, 0, 0)
    ELSE IF b.p < 0 THEN LT \o Triple(b.M, b.m + 1, 0)
    ELSE LE \o RenderVer(b)

Example4a == <<"1", ".", "2", " ", "-", " ", "3", ".", "4", ".", "5">>

Example4b == <<"1", ".", "2", ".", "3", " ", "-", " ", "3", ".", "4">>

Example4c == <<"1", ".", "2", " ", "-", " ", "3", ".", "4">>

(***************************************************************************)
(* C4.  hyphenReplace on "A - B" gives "<lower> <upper>": lower is dropped *)
(* when A's major is a wildcard, ">=M.0.0" when its minor is, ">=M.m.0"    *)
(* when its patch is, else ">=A"; upper is dropped when B's major is a     *)
(* wildcard, "<(M+1).0.0" when its minor is, "<M.(m+1).0" when its patch   *)
(* is, else "<=B" with B's prerelease.  A string that is no hyphen range   *)
(* is returned unchanged.  "1.2 - 3.4.5" gives ">=1.2.0 <=3.4.5",          *)
(* "1.2.3 - 3.4" gives ">=1.2.3 <3.5.0", "1.2 - 3.4" gives ">=1.2.0        *)
(* <3.5.0".                                                                *)
(***************************************************************************)
C4_HyphenReplace ==
    op = "hyphenReplace" =>
       /\ shape.kind = "hyphen" =>
             out = Pair(HyphenLower(shape.a), HyphenUpper(shape.b))
       /\ shape.kind \in {"token", "list"} => out = s
       /\ s = Example4a => out = GE \o Triple(1, 2, 0) \o <<" ">> \o LE \o Triple(3, 4, 5)
       /\ s = Example4b => out = GE \o Triple(1, 2, 3) \o SpLT \o Triple(3, 5, 0)
       /\ s = Example4c => out = GE \o Triple(1, 2, 0) \o SpLT \o Triple(3, 5, 0)

\* hyphenReplace has rewritten "1.2 - 3.4.5", whose lower end has no patch
C4_Witness ==
    /\ op = "hyphenReplace"
    /\ s = Example4a
    /\ out = <<">", "=", "1", ".", "2", ".", "0", " ", "<", "=", "3", ".", "4", ".", "5">>

Example5 == <<"1", ".", "2", ".", "3", " ", "-", " ", "2", ".", "3", ".", "4">>

(***************************************************************************)
(* C5.  For fully written versions A and B, ParseRange("A - B") succeeds   *)
(* and its Range is true on v iff A <= v and v <= B in the order of        *)
(* Versions, both ends included; ParseRange("1.2.3 - 2.3.4") matches v iff *)
(* 1.2.3 <= v <= 2.3.4.                                                    *)
(***************************************************************************)
C5_HyphenInclusive ==
    /\ (/\ op = "ParseRange"
        /\ shape.kind = "hyphen"
        /\ Full(shape.a)
        /\ Full(shape.b))
       => /\ err = NoErr
          /\ \A v \in Versions :
                /\ ~Panics(rng, v)
                /\ Eval(rng, v) <=>
                      /\ Compare(v, VOf(shape.a)) >= 0
                      /\ Compare(v, VOf(shape.b)) <= 0
    /\ (op = "ParseRange" /\ s = Example5)
       => /\ err = NoErr
          /\ \A v \in Versions :
                Eval(rng, v) <=>
                   /\ Compare(v, V(1, 2, 3, <<>>)) >= 0
                   /\ Compare(v, V(2, 3, 4, <<>>)) <= 0

\* ParseRange has returned the Range of "1.2.3 - 2.3.4", true on both of its
\* ends and false right above the upper one
C5_Witness ==
    /\ op = "ParseRange"
    /\ s = Example5
    /\ err = NoErr
    /\ Eval(rng, V(1, 2, 3, <<>>))
    /\ Eval(rng, V(2, 3, 4, <<>>))
    /\ ~Eval(rng, V(2, 3, 5, <<>>))

\* a comparator token with the operator prefix o and a numeric major
NumericToken(sh, ops) ==
    sh.kind = "token" /\ sh.op \in ops /\ sh.ver.M >= 0

\* the lower bound that a tilde or a caret range puts on the partial version a
ShortLower(a) ==
    IF a.m < 0 THEN GE \o Triple(a.M, 0, 0)
    ELSE IF a.p < 0 THEN GE \o Triple(a.M, a.m, 0)
    ELSE GE \o RenderVer(a)

\* the upper bound of the tilde range of a
TildeUpper(a) ==
    IF a.m < 0 THEN LT \o Triple(a.M + 1, 0, 0)
    ELSE LT \o Triple(a.M, a.m + 1, 0)

Example6 == <<"~", "1", ".", "2", ".", "3">>

(***************************************************************************)
(* C6.  Tilde expansion of a token "~X" or "~>X", the same for both        *)
(* spellings: a wildcard or omitted minor gives ">=M.0.0 <(M+1).0.0", a    *)
(* wildcard or omitted patch gives ">=M.m.0 <M.(m+1).0", a fully written   *)
(* version, with or without prerelease, gives ">=M.m.p[-pr] <M.(m+1).0".   *)
(* "~1.2.3" gives ">=1.2.3 <1.3.0", "~1.2" gives ">=1.2.0 <1.3.0", "~0"    *)
(* gives ">=0.0.0 <1.0.0", "~2.x.x" gives ">=2.0.0 <3.0.0".                *)
(***************************************************************************)
C6_TildeExpansion ==
    /\ (op = "replaceTildes" /\ NumericToken(shape, {<<"~">>, <<"~", ">">>}))
       => out = ShortLower(shape.ver) \o <<" ">> \o TildeUpper(shape.ver)
    /\ (op = "parseRange" /\ NumericToken(shape, {<<"~">>, <<"~", ">">>}))
       => toks = <<ShortLower(shape.ver), TildeUpper(shape.ver)>>
    /\ (op = "replaceTildes" /\ s = Example6)
       => out = GE \o Triple(1, 2, 3) \o SpLT \o Triple(1, 3, 0)
    /\ (op = "replaceTildes" /\ s = <<"~", "1", ".", "2">>)
       => out = GE \o Triple(1, 2, 0) \o SpLT \o Triple(1, 3, 0)
    /\ (op = "replaceTildes" /\ s = <<"~", "0">>)
       => out = GE \o Triple(0, 0, 0) \o SpLT \o Triple(1, 0, 0)
    /\ (op = "replaceTildes" /\ s = <<"~", "2", ".", "x", ".", "x">>)
       => out = GE \o Triple(2, 0, 0) \o SpLT \o Triple(3, 0, 0)

\* replaceTildes has expanded "~>1.2", written with the second spelling and
\* without a patch
C6_Witness ==
    /\ op = "replaceTildes"
    /\ s = <<"~", ">", "1", ".", "2">>
    /\ out = <<">", "=", "1", ".", "2", ".", "0", " ", "<", "1", ".", "3", ".", "0">>

\* the upper bound of the caret range of a
CaretUpper(a) ==
    IF a.m < 0 THEN LT \o Triple(a.M + 1, 0, 0)
    ELSE IF a.p < 0
    THEN IF a.M = 0 THEN LT \o Triple(a.M, a.m + 1, 0)
         ELSE LT \o Triple(a.M + 1, 0, 0)
    ELSE IF a.M = 0 /\ a.m # 0 THEN LT \o Triple(a.M, a.m + 1, 0)
    ELSE IF a.M = 0 /\ a.m = 0 THEN LT \o Triple(a.M, a.m, a.p + 1)
    ELSE LT \o Triple(a.M + 1, 0, 0)

(***************************************************************************)
(* C7.  Caret expansion of a token "^X": a wildcard or omitted minor gives *)
(* ">=M.0.0 <(M+1).0.0"; a wildcard or omitted patch gives ">=M.m.0        *)
(* <M.(m+1).0" when M is 0 and ">=M.m.0 <(M+1).0.0" otherwise; a fully     *)
(* written version gives the lower bound ">=M.m.p[-pr]" and the upper      *)
(* bound "<M.(m+1).0" when M = 0 and m # 0, "<M.m.(p+1)" when M = 0 and    *)
(* m = 0, "<(M+1).0.0" otherwise.  "^1.2.3" gives ">=1.2.3 <2.0.0",        *)
(* "^0.2.3" gives ">=0.2.3 <0.3.0", "^0.0.3" gives ">=0.0.3 <0.0.4",       *)
(* "^2.0.x" gives ">=2.0.0 <3.0.0".                                        *)
(***************************************************************************)
C7_CaretExpansion ==
    /\ (op = "replaceCarets" /\ NumericToken(shape, {<<"^">>}))
       => out = ShortLower(shape.ver) \o <<" ">> \o CaretUpper(shape.ver)
    /\ (op = "parseRange" /\ NumericToken(shape, {<<"^">>}))
       => toks = <<ShortLower(shape.ver), CaretUpper(shape.ver)>>
    /\ (op = "replaceCarets" /\ s = <<"^", "1", ".", "2", ".", "3">>)
       => out = GE \o Triple(1, 2, 3) \o SpLT \o Triple(2, 0, 0)
    /\ (op = "replaceCarets" /\ s = <<"^", "0", ".", "2", ".", "3">>)
       => out = GE \o Triple(0, 2, 3) \o SpLT \o Triple(0, 3, 0)
    /\ (op = "replaceCarets" /\ s = <<"^", "0", ".", "0", ".", "3">>)
       => out = GE \o Triple(0, 0, 3) \o SpLT \o Triple(0, 0, 4)
    /\ (op = "replaceCarets" /\ s = <<"^", "2", ".", "0", ".", "x">>)
       => out = GE \o Triple(2, 0, 0) \o SpLT \o Triple(3, 0, 0)

\* replaceCarets has expanded "^0.0.3", where the patch alone may not grow
C7_Witness ==
    /\ op = "replaceCarets"
    /\ s = <<"^", "0", ".", "0", ".", "3">>
    /\ out = <<">", "=", "0", ".", "0", ".", "3", " ", "<", "0", ".", "0", ".", "4">>

\* a partial version with a wildcard or nothing for its minor or its patch
Partial(a) == a.m < 0 \/ a.p < 0

\* the x-range a of the next unit up: (M+1).0.0 or M.(m+1).0
NextUnit(a) ==
    IF a.m < 0 THEN Triple(a.M + 1, 0, 0) ELSE Triple(a.M, a.m + 1, 0)

\* the x-range a with 0 for what is not written
ThisUnit(a) == Triple(a.M, IF a.m < 0 THEN 0 ELSE a.m, 0)

\* the one comparator of the x-range a under the relational operator o
XRangeComparator(o, a) ==
    IF o = GT THEN GE \o NextUnit(a)
    ELSE IF o = LE THEN LT \o NextUnit(a)
    ELSE o \o ThisUnit(a)

(***************************************************************************)
(* C8.  An x-range with a relational operator and a numeric major, whose   *)
(* minor or patch is a wildcard or omitted: ">" becomes ">=" of the next   *)
(* unit up (">1.2.x" gives ">=1.3.0", ">1.x" gives ">=2.0.0"), "<="        *)
(* becomes "<" of the next unit up ("<=1.2.x" gives "<1.3.0", "<=1" gives  *)
(* "<2.0.0"), ">=" and "<" keep the operator with 0 for the wildcards      *)
(* (">=1.2.x" gives ">=1.2.0", "<1.2.x" gives "<1.2.0"); the result is     *)
(* exactly one comparator.                                                 *)
(***************************************************************************)
C8_XRangeRelational ==
    /\ (/\ op = "replaceXRanges"
        /\ NumericToken(shape, {GT, GE, LT, LE})
        /\ Partial(shape.ver))
       => out = XRangeComparator(shape.op, shape.ver)
    /\ (/\ op = "parseRange"
        /\ NumericToken(shape, {GT, GE, LT, LE})
        /\ Partial(shape.ver))
       => toks = <<XRangeComparator(shape.op, shape.ver)>>
    /\ (op = "replaceXRanges" /\ s = <<">", "1", ".", "2", ".", "x">>)
       => out = GE \o Triple(1, 3, 0)
    /\ (op = "replaceXRanges" /\ s = <<">", "1", ".", "x">>)
       => out = GE \o Triple(2, 0, 0)
    /\ (op = "replaceXRanges" /\ s = <<"<", "=", "1", ".", "2", ".", "x">>)
       => out = LT \o Triple(1, 3, 0)
    /\ (op = "replaceXRanges" /\ s = <<"<", "=", "1">>)
       => out = LT \o Triple(2, 0, 0)
    /\ (op = "replaceXRanges" /\ s = <<">", "=", "1", ".", "2", ".", "x">>)
       => out = GE \o Triple(1, 2, 0)
    /\ (op = "replaceXRanges" /\ s = <<"<", "1", ".", "2", ".", "x">>)
       => out = LT \o Triple(1, 2, 0)

\* parseRange has turned "<=1.2.x" into the one comparator "<1.3.0"
C8_Witness ==
    /\ op = "parseRange"
    /\ s = <<"<", "=", "1", ".", "2", ".", "x">>
    /\ toks = <<<<"<", "1", ".", "3", ".", "0">>>>

(***************************************************************************)
(* C9.  An x-range without operator, or with "=", which is dropped on a    *)
(* wildcarded form: "M", "M.x", "M.x.x" normalize to ">=M.0.0              *)
(* <(M+1).0.0" and "M.m", "M.m.x" to ">=M.m.0 <M.(m+1).0".  So for every   *)
(* Version v without prerelease ParseRange("M.m.x") matches v iff v's      *)
(* major is M and its minor is m, and ParseRange("M.x") matches v iff v's  *)
(* major is M.                                                             *)
(***************************************************************************)
C9_XRangePlain ==
    /\ (/\ op = "replaceXRanges"
        /\ NumericToken(shape, {<<>>, <<"=">>})
        /\ Partial(shape.ver))
       => out = GE \o ThisUnit(shape.ver) \o SpLT \o NextUnit(shape.ver)
    /\ (/\ op = "parseRange"
        /\ NumericToken(shape, {<<>>, <<"=">>})
        /\ Partial(shape.ver))
       => toks = <<GE \o ThisUnit(shape.ver), LT \o NextUnit(shape.ver)>>
    /\ (/\ op = "ParseRange"
        /\ NumericToken(shape, {<<>>, <<"=">>})
        /\ Partial(shape.ver))
       => /\ err = NoErr
          /\ \A v \in Versions :
                v.pre = <<>> =>
                   /\ ~Panics(rng, v)
                   /\ Eval(rng, v) <=>
                         /\ v.major = Dec(shape.ver.M)
                         /\ shape.ver.m >= 0 => v.minor = Dec(shape.ver.m)

\* ParseRange has returned the Range of "1.2.x", true on 1.2.3 and false on
\* 1.3.0 and on 2.2.0
C9_Witness ==
    /\ op = "ParseRange"
    /\ s = <<"1", ".", "2", ".", "x">>
    /\ err = NoErr
    /\ Eval(rng, V(1, 2, 3, <<>>))
    /\ ~Eval(rng, V(1, 3, 0, <<>>))
    /\ ~Eval(rng, V(2, 2, 0, <<>>))

\* a comparator token with a wildcard for its major and a strict operator
StrictWild(sh) == sh.kind = "token" /\ sh.ver.M < 0 /\ sh.op \in {GT, LT}

Below0 == LT \o Triple(0, 0, 0)

(***************************************************************************)
(* C10.  A token whose major is a wildcard and that carries a strict       *)
(* operator (">x", "<x", ">*", "<X") normalizes to "<0.0.0", and the Range *)
(* built from it is satisfied by no Version at all, prerelease versions    *)
(* included.  The code does the first and not the second: "<0.0.0" is a    *)
(* compLT against 0.0.0, which every prerelease of 0.0.0 satisfies.        *)
(***************************************************************************)
C10_NothingAllowed ==
    /\ (op = "parseRange" /\ StrictWild(shape)) => toks = <<Below0>>
    /\ (op = "ParseRange" /\ StrictWild(shape))
       => /\ err = NoErr
          /\ \A v \in Versions : ~Eval(rng, v)

\* a comparator token that is a wildcard and nothing else: "x", "X" or "*"
WildcardOnly(sh) ==
    /\ sh.kind = "token"
    /\ sh.op = <<>>
    /\ sh.ver.M < 0
    /\ sh.ver.m = Omitted

(***************************************************************************)
(* C11.  For each of the wildcard-only range strings "x", "*" and "",      *)
(* ParseRange succeeds and the Range it returns is true on every Version,  *)
(* versions with a prerelease such as 0.0.0-alpha included.  The code      *)
(* turns "x" and "*" into ">=0.0.0", which no prerelease of 0.0.0          *)
(* satisfies, and returns an error on "".                                  *)
(***************************************************************************)
C11_WildcardOnly ==
    (op = "ParseRange" /\ (WildcardOnly(shape) \/ s = <<>>))
    => /\ err = NoErr
       /\ \A v \in Versions : Eval(rng, v)

\* a caret or tilde token with a wildcard for its major
ShortWild(sh) ==
    sh.kind = "token" /\ sh.op \in Shorthands /\ sh.ver.M < 0

\* a hyphen range with a wildcard for both majors
HyphenWild(sh) ==
    sh.kind = "hyphen" /\ sh.a.M < 0 /\ sh.b.M < 0

Example12 == GT \o C100 \o <<" ", "^", "x">>

(***************************************************************************)
(* C12.  A segment whose shorthand reduces to nothing is unconstrained:    *)
(* for a caret or tilde with a wildcard major ("^x", "^*", "~x", "~>X")    *)
(* and for a hyphen range with both majors wildcard ("x - x") the          *)
(* normalizer emits no comparator, ParseRange succeeds and the Range       *)
(* matches every Version; in ">1.0.0 ^x" the wildcard token adds no        *)
(* constraint.  The code keeps the empty string as a comparator, and       *)
(* ParseRange returns the error of splitComparatorVersion on it.           *)
(***************************************************************************)
C12_EmptyShorthand ==
    /\ (op = "parseRange" /\ (ShortWild(shape) \/ HyphenWild(shape)))
       => \A i \in 1..Len(toks) : toks[i] # <<>>
    /\ (op = "ParseRange" /\ (ShortWild(shape) \/ HyphenWild(shape)))
       => /\ err = NoErr
          /\ \A v \in Versions : Eval(rng, v)
    /\ (op = "ParseRange" /\ s = Example12)
       => /\ err = NoErr
          /\ \A v \in Versions : Eval(rng, v) <=> Compare(v, V(1, 0, 0, <<>>)) = 1

\* the Version M.m.p of three decimal numbers of any size
VDigits(M, m, p) == [major |-> M, minor |-> m, patch |-> p, pre |-> <<>>]

AtLeast(M, m, p) == rangeFunc([v |-> VDigits(M, m, p), c |-> "compGE"])

Below(M, m, p) == rangeFunc([v |-> VDigits(M, m, p), c |-> "compLT"])

\* the Range an edge form denotes when N + 1 is the exact successor of N
EdgeRange(f, e) ==
    CASE f = "1 - N"   -> AND(AtLeast(<<"1">>, <<"0">>, <<"0">>), Below(e.succ, <<"0">>, <<"0">>))
      [] f = "1 - 1.N" -> AND(AtLeast(<<"1">>, <<"0">>, <<"0">>), Below(<<"1">>, e.succ, <<"0">>))
      [] f = "~N"      -> AND(AtLeast(e.n, <<"0">>, <<"0">>), Below(e.succ, <<"0">>, <<"0">>))
      [] f = "~1.N"    -> AND(AtLeast(<<"1">>, e.n, <<"0">>), Below(<<"1">>, e.succ, <<"0">>))
      [] f = "^N"      -> AND(AtLeast(e.n, <<"0">>, <<"0">>), Below(e.succ, <<"0">>, <<"0">>))
      [] f = "^0.N"    -> AND(AtLeast(<<"0">>, e.n, <<"0">>), Below(<<"0">>, e.succ, <<"0">>))
      [] f = "^0.0.N"  -> AND(AtLeast(<<"0">>, <<"0">>, e.n), Below(<<"0">>, <<"0">>, e.succ))
      [] f = ">N"      -> AtLeast(e.succ, <<"0">>, <<"0">>)
      [] f = ">1.N"    -> AtLeast(<<"1">>, e.succ, <<"0">>)
      [] f = "<=N"     -> Below(e.succ, <<"0">>, <<"0">>)
      [] f = "<=1.N"   -> Below(<<"1">>, e.succ, <<"0">>)
      [] f = "N"       -> AND(AtLeast(e.n, <<"0">>, <<"0">>), Below(e.succ, <<"0">>, <<"0">>))
      [] f = "1.N"     -> AND(AtLeast(<<"1">>, e.n, <<"0">>), Below(<<"1">>, e.succ, <<"0">>))

SegText(seg) == Join(Texts(seg), <<" ">>)

\* two Ranges that return the same boolean on every Version
Agree(r1, r2) == \A v \in Versions : Eval(r1, v) <=> Eval(r2, v)

\* when ParseRange accepts both segments, it has accepted the string made of
\* them, and the Range it returned agrees with their combination
Composed(a, b, Combine(_, _)) ==
    Bind(ParseRange(SegText(a)), LAMBDA ra :
    Bind(ParseRange(SegText(b)), LAMBDA rb :
    (ra.err = NoErr /\ rb.err = NoErr)
    => (err = NoErr /\ Agree(rng, Combine(ra.fn, rb.fn)))))

\* ParseRange has returned on a || b, or on a b, for segments a and b that it
\* accepts, and its Range is the OR, or the AND, of their two Ranges
StringLevel ==
    (op = "ParseRange" /\ shape.kind = "list")
    => /\ Len(Segs(shape)) = 2
          => Composed(Segs(shape)[1], Segs(shape)[2], OR)
       /\ Len(Segs(shape)) = 1
          => \A k \in 1..(Len(shape.toks) - 1) :
                Composed(SubSeq(shape.toks, 1, k),
                         SubSeq(shape.toks, k + 1, Len(shape.toks)), AND)

(***************************************************************************)
(* C14.  The combinators compose built Ranges pointwise, and agree with    *)
(* composition in the string: r.AND(f) is true on a Version exactly when   *)
(* r and f both are, r.OR(f) exactly when one of them is; and for accepted *)
(* segments a and b of plain comparators ParseRange(a || b) returns what   *)
(* ParseRange(a).OR(ParseRange(b)) returns on every Version, and           *)
(* ParseRange(a b) what ParseRange(a).AND(ParseRange(b)) returns.          *)
(***************************************************************************)
C14_Combinators ==
    /\ op = "AND" =>
          Bind(ParseRange(s).fn, LAMBDA r :
               \A v \in Versions : Eval(rng, v) <=> (Eval(r, v) /\ Eval(arg, v)))
    /\ op = "OR" =>
          Bind(ParseRange(s).fn, LAMBDA r :
               \A v \in Versions : Eval(rng, v) <=> (Eval(r, v) \/ Eval(arg, v)))
    /\ StringLevel

\* the Range of ">=3.0.0 || <2.0.0" has been ANDed with the Range of
\* ">1.0.0 <2.0.0 || >=3.0.0": the result is false on 1.0.0 and true on 3.0.0
C14_Witness ==
    /\ op = "AND"
    /\ shape.kind = "list"
    /\ Len(Segs(shape)) = 2
    /\ s = GE \o C300 \o OrSep \o LT \o C200
    /\ arg = ParseRange(Example1).fn
    /\ Eval(rng, V(3, 0, 0, <<>>))
    /\ Eval(rng, V(1, 1, 1, <<>>))
    /\ ~Eval(rng, V(1, 0, 0, <<>>))
    /\ ~Eval(rng, V(2, 0, 0, <<>>))

(***************************************************************************)
(* C15.  MustParseRange(s) panics exactly when ParseRange(s) returns an    *)
(* error, and otherwise returns the very Range ParseRange(s) returns, so   *)
(* one that agrees with it on every Version; ParseRange itself never       *)
(* panics, and a failure of it is an error value next to the nil Range.    *)
(***************************************************************************)
C15_MustParseRange ==
    /\ op = "MustParseRange" =>
          Bind(ParseRange(s), LAMBDA r :
               /\ panic # NoPanic <=> r.err # NoErr
               /\ panic = NoPanic => rng = r.fn
               /\ err = NoErr)
    /\ op = "ParseRange" =>
          /\ panic = NoPanic
          /\ err # NoErr <=> rng = NilRange

\* MustParseRange has panicked on a ||-list with a comparator that does not
\* parse, with the error of ParseRange at the end of its message
C15_Witness ==
    /\ op = "MustParseRange"
    /\ BadList(shape)
    /\ panic # NoPanic
    /\ panic[Len(panic)] = ParseRange(s).err
    /\ rng = NilRange

(***************************************************************************)
(* C16.  For every fully specified version v = M.m.p, ParseRange accepts   *)
(* ">=v <v" and its Range is false on v and on every other Version (the    *)
(* range is empty), and ParseRange accepts "=v" and its Range is true      *)
(* on v.                                                                   *)
(***************************************************************************)
C16_EmptyAndExact ==
    /\ (op = "ParseRange" /\ shape.kind = "bounds")
       => /\ err = NoErr
          /\ ~Eval(rng, VOf(shape.ver))
          /\ \A v \in Versions : ~Eval(rng, v)
    /\ (/\ op = "ParseRange"
        /\ shape.kind = "token"
        /\ shape.op = <<"=">>
        /\ Full(shape.ver)
        /\ shape.ver.pr = <<>>)
       => /\ err = NoErr
          /\ Eval(rng, VOf(shape.ver))

\* ParseRange has returned the Range of ">=1.2.0 <1.2.0", an AND of the two
\* bounds against 1.2.0, which is false on 1.2.0
C16_Witness ==
    /\ op = "ParseRange"
    /\ shape.kind = "bounds"
    /\ shape.ver = PV(1, 2, 0, <<>>)
    /\ err = NoErr
    /\ rng = AND(AtLeast(<<"1">>, <<"2">>, <<"0">>), Below(<<"1">>, <<"2">>, <<"0">>))
    /\ ~Eval(rng, V(1, 2, 0, <<>>))

\* the length of the relational operator a token starts with, 0 for none
CanonOpLen(tk) ==
    IF Len(tk) >= 2 /\ SubSeq(tk, 1, 2) \in {GE, LE} THEN 2
    ELSE IF Len(tk) >= 1 /\ tk[1] \in {">", "<", "="} THEN 1
    ELSE 0

\* a token of the form <op><M.m.p[-pr]> with op one of >=, <=, >, <, =
IsCanonToken(tk) ==
    /\ CanonOpLen(tk) > 0
    /\ \A i \in 1..Len(tk) : tk[i] # "+"
    /\ Parse(SubSeq(tk, CanonOpLen(tk) + 1, Len(tk))).ok

IsCanon(ts) == Len(ts) > 0 /\ \A i \in 1..Len(ts) : IsCanonToken(ts[i])

(***************************************************************************)
(* C17.  Normalization is idempotent on canonical input: parseRange on the *)
(* space-joined sequence of tokens <op><M.m.p[-pr]>, op one of >=, <=, >,  *)
(* <, =, returns exactly that sequence; and whenever parseRange returns    *)
(* such a sequence, parseRange on its join returns it again.               *)
(***************************************************************************)
C17_Idempotent ==
    /\ (op = "parseRange" /\ shape.kind = "canon") => toks = shape.toks
    /\ (op = "parseRange" /\ IsCanon(toks)) => parseRange(Join(toks, <<" ">>)) = toks

\* parseRange has returned the two canonical comparators it was given, one
\* of them with a prerelease
C17_Witness ==
    /\ op = "parseRange"
    /\ shape.kind = "canon"
    /\ Len(toks) = 2
    /\ toks = shape.toks
    /\ toks[1] = <<"=">> \o C100
    /\ toks[2] = LE \o <<"2", ".", "0", ".", "3", "-">> \o Beta2
    /\ IsCanon(toks)

(***************************************************************************)
(* C19.  Whitespace around operators is insignificant: with whitespace     *)
(* between a relational operator and its version ("> 1.2.3"), after a      *)
(* leading "~", "~>" or "^" ("~> 1.2.3", "^ 1.2.3"), or with the single    *)
(* space between two comparators widened to a longer run, parseRange       *)
(* returns the token sequence it returns for the compact spelling.         *)
(***************************************************************************)
C19_Whitespace ==
    (op = "parseRange" /\ shape.kind = "spaced") => toks = parseRange(Compact(shape))

\* parseRange has returned, for "~>  1.2.3" tab "<  2.0.0", the three
\* comparators of "~>1.2.3 <2.0.0"
C19_Witness ==
    /\ op = "parseRange"
    /\ shape.kind = "spaced"
    /\ shape.c1 = [o |-> <<"~", ">">>, ver |-> <<"1", ".", "2", ".", "3">>]
    /\ shape.c2 = [o |-> LT, ver |-> C200]
    /\ shape.gap = <<" ", " ">>
    /\ shape.sep = <<"\t">>
    /\ toks = <<GE \o <<"1", ".", "2", ".", "3">>, LT \o <<"1", ".", "3", ".", "0">>,
                LT \o C200>>

\* a token that is "*" behind one of the given prefixes
StarToken(sh, ops) ==
    /\ sh.kind = "token"
    /\ sh.op \in ops
    /\ sh.ver.M = Wildcard
    /\ sh.ver.m = Omitted
    /\ sh.ver.w = "*"

(***************************************************************************)
(* C20, as claimed.  Every token that is "*" behind an optional relational *)
(* prefix ("", "<", ">", "<=", ">=", "=") is normalized by the token-wise  *)
(* pipeline (caret, tilde, x-range, then star) to ">=0.0.0".               *)
(***************************************************************************)
C20_StarAnyPrefix ==
    (op = "parseComparatorString" /\ StarToken(shape, {<<>>, LT, GT, LE, GE, <<"=">>}))
    => out = GeZero

(***************************************************************************)
(* C20, amended.  A token that is "*" behind the prefix "", "<=", ">=" or  *)
(* "=" is normalized by the token-wise pipeline to ">=0.0.0"; behind the   *)
(* strict prefix "<" or ">" the x-range stage, which runs before the star  *)
(* stage, rewrites it to "<0.0.0", and the star stage leaves that as it    *)
(* is.                                                                     *)
(***************************************************************************)
C20_StarExpansion ==
    /\ (op = "parseComparatorString" /\ StarToken(shape, {<<>>, LE, GE, <<"=">>}))
       => out = GeZero
    /\ (op = "parseComparatorString" /\ StarToken(shape, {LT, GT}))
       => out = Below0

\* parseComparatorString has rewritten "<=*" to ">=0.0.0"
C20_Witness ==
    /\ op = "parseComparatorString"
    /\ s = <<"<", "=", "*">>
    /\ StarToken(shape, {LE})
    /\ out = <<">", "=", "0", ".", "0", ".", "0">>

(***************************************************************************)
(* C18.  Once ParseRange has returned a Range, evaluating it changes       *)
(* neither the Range nor any other shared state: under every interleaving  *)
(* of the steps of the concurrent readers the Range is still the one       *)
(* ParseRange returned, every evaluation returns the boolean it returns    *)
(* when run alone, no evaluation panics, and two evaluations on the same   *)
(* Version return the same boolean.                                        *)
(***************************************************************************)
C18_Readers ==
    /\ op = "ParseRange" =>
          Bind(ParseRange(s), LAMBDA r : rng = r.fn /\ err = r.err)
    /\ arg = NilRange /\ panic = NoPanic /\ out = <<>> /\ toks = <<>>
    /\ \A i \in 1..NumReaders :
          /\ readers[i].pc # "panic"
          /\ readers[i].pc = "done" => readers[i].res = Eval(rng, readers[i].v)
    /\ \A i, j \in 1..NumReaders :
          (/\ readers[i].pc = "done"
           /\ readers[j].pc = "done"
           /\ readers[i].v = readers[j].v)
          => readers[i].res = readers[j].res

\* one reader has got TRUE for 3.0.0 from the Range of
\* ">1.0.0 <2.0.0 || >=3.0.0" while another is inside the first segment of
\* the same Range, on 1.2.3
C18_Witness ==
    /\ op = "ParseRange"
    /\ s = Example1
    /\ \E i, j \in 1..NumReaders :
          /\ readers[i].pc = "done"
          /\ readers[i].v = V(3, 0, 0, <<>>)
          /\ readers[i].res
          /\ readers[j].pc = "eval"
          /\ readers[j].v = V(1, 2, 3, <<>>)
          /\ readers[j].path = <<"rf", "f">>

(***************************************************************************)
(* C21.  An empty segment of the ||-split (a leading, trailing or doubled  *)
(* "||", as in "1.0.0 ||" or "|| 1.0.0") contributes no AND-group: the     *)
(* string is parsed exactly like the string with the empty segments        *)
(* removed, so ParseRange accepts it and returns a Range that agrees with  *)
(* the Range of the other segments.  The code keeps the empty segment:     *)
(* parseRange("") returns the one comparator "", the guard on the length   *)
(* of the parsed segment never skips it, and ParseRange returns the error  *)
(* of splitComparatorVersion on it.                                        *)
(***************************************************************************)
C21_EmptySegments ==
    (op = "ParseRange" /\ shape.kind = "hollow")
    => Bind(ParseRange(Join(shape.segs, OrSep)), LAMBDA r :
            /\ err = r.err
            /\ Agree(rng, r.fn))

\* a caret token ^M.m.p with all three components given, no prerelease, and
\* a major of at least 1
CaretFull(sh) ==
    /\ sh.kind = "token"
    /\ sh.op = <<"^">>
    /\ Full(sh.ver)
    /\ sh.ver.pr = <<>>
    /\ sh.ver.M >= 1

(***************************************************************************)
(* C22.  A caret range never crosses the next breaking version: for every  *)
(* M >= 1 and all m and p, every Version, with or without a prerelease, on *)
(* which the Range of "^M.m.p" is true has the major M.  The code builds   *)
(* ">=M.m.p <(M+1).0.0", and a prerelease of (M+1).0.0 is lower than       *)
(* (M+1).0.0: the Range of "^1.2.2" is true on 2.0.0-a.                    *)
(***************************************************************************)
C22_CaretKeepsMajor ==
    (op = "ParseRange" /\ CaretFull(shape))
    => /\ err = NoErr
       /\ \A v \in Versions : Eval(rng, v) => v.major = Dec(shape.ver.M)

\* a Range none of whose closures is, or calls, a nil func
RECURSIVE Callable(_)
Callable(r) ==
    CASE r.t = "nil" -> FALSE
      [] r.t = "vr"  -> TRUE
      [] r.t \in {"OR", "AND"} -> Callable(r.rf) /\ Callable(r.f)

(***************************************************************************)
(* C23.  Whenever ParseRange returns a nil error the Range it returns is   *)
(* not nil and can be called: parseRange returns at least one comparator   *)
(* for every segment, so neither the AND function of a segment nor the     *)
(* overall OR function is left nil, and no call of the Range panics.       *)
(***************************************************************************)
C23_RangeNotNil ==
    /\ (op = "ParseRange" /\ err = NoErr)
       => /\ rng # NilRange
          /\ Callable(rng)
          /\ \A v \in ReaderVersions : ~Panics(rng, v)
    /\ op = "parseRange" => Len(toks) >= 1

\* ParseRange has accepted a list of two segments and returned the OR of two
\* callable Ranges
C23_Witness ==
    /\ op = "ParseRange"
    /\ err = NoErr
    /\ shape.kind = "list"
    /\ Len(Segs(shape)) = 2
    /\ rng.t = "OR"
    /\ rng.rf # NilRange
    /\ rng.f # NilRange
    /\ Callable(rng)

====
